---- MODULE Spec2Model ----
(***************************************************************************)
(* Rate limiting and usage accounting engine of social-ai                  *)
(* (backend/app/services/rate_limit_service.py over                        *)
(* backend/app/core/redis_client.py).                                      *)
(*                                                                         *)
(* Every `await self.redis.X(...)` of the service is one atomic step: the  *)
(* store executes one command at a time, and tasks (and worker processes)  *)
(* interleave between commands.  A command may fail: RedisClient catches   *)
(* the exception and returns its sentinel (None / False).                   *)
(*                                                                         *)
(* Time is counted in minutes (the minute window, MinuteSeconds seconds):  *)
(* a key whose time to live is n minutes may expire during the n-th minute *)
(* after it was set and is gone when that minute ends.                     *)
(***************************************************************************)
EXTENDS Integers, Sequences, FiniteSets, TLC

VARIABLES store, now, pc, loc, backend, faults, crashes, expired, plan,
          ledger, hist, running

vars == <<store, now, pc, loc, backend, faults, crashes, expired, plan,
          ledger, hist, running>>

(***************************************************************************)
(* Bounds of the model                                                     *)
(***************************************************************************)
NumReqs == 2
NumSeqReqs == 4
MaxCalls == 101
MaxTime == 2
MaxFaults == 1
MaxCrashes == 1
MaxEvents == 3
MaxHours == 2

\* The requests of a behaviour, and every request id of the model
Reqs == DOMAIN pc
AllReqs == 1 .. (IF NumReqs >= NumSeqReqs THEN NumReqs ELSE NumSeqReqs)

(***************************************************************************)
(* Program constants                                                       *)
(***************************************************************************)
None == -1
NoExpiry == -1
KeyMissing == -2
MinuteSeconds == 60
HourSeconds == 3600
DaySeconds == 86400
SlotSeconds == 300
ReleaseSeconds == 300
QueueSeconds == 7200

Kinds == <<"minute", "hour", "day", "month">>
KindSet == {Kinds[i] : i \in 1 .. 4}

\* A time to live given in seconds, in minutes
Ticks(seconds) == seconds \div MinuteSeconds

(***************************************************************************)
(* Keys: f"concurrent:{user_id}", f"concurrent_slot:{user_id}:{request_id}"*)
(* and f"rate_limit:{user_id}:{kind}:{window}"                             *)
(***************************************************************************)
UserOf(r) == 1
Users == {UserOf(r) : r \in AllReqs}

concurrent_key(u) == <<"concurrent", u, "", 0>>
slot_key(u, r) == <<"concurrent_slot", u, "", r>>
window_key(u, kind, w) == <<"rate_limit", u, kind, w>>

\* The month key stamped with the day's format
WindowOf_month_by_day(kind, t) ==
    CASE kind = "minute" -> t
      [] kind = "hour" -> t \div 60
      [] kind = "day" -> t \div (24 * 60)
      [] kind = "month" -> t \div (24 * 60)

\* datetime.strftime of the four window formats: the window a minute lies in
WindowOf(kind, t) ==
    CASE kind = "minute" -> t
      [] kind = "hour" -> t \div 60
      [] kind = "day" -> t \div (24 * 60)
      [] kind = "month" -> t \div (30 * 24 * 60)

\* The clock starts at midnight or one minute before the next midnight, and
\* the model follows it for MaxTime minutes
StartTimes == {0, 24 * 60 - 1}
Times == {t0 + d : t0 \in StartTimes, d \in 0 .. MaxTime}

\* The keys of the slot tracker and the keys of the window counters: the two
\* never touch each other's keys
SlotKeys ==
    {concurrent_key(u) : u \in Users}
      \cup {slot_key(UserOf(r), r) : r \in AllReqs}
WindowKeys ==
    {window_key(u, k, WindowOf(k, t)) :
        u \in Users, k \in KindSet, t \in Times}
Keys == DOMAIN store

(***************************************************************************)
(* RedisClient: the store maps every key to [val, ttl, born]; ttl is       *)
(* KeyMissing for an absent key, NoExpiry for a key without expiry, else   *)
(* the minutes left; born is the minute in which the key was created.      *)
(* `ok` is FALSE when the backend is unreachable or raises.                *)
(***************************************************************************)
Missing == [val |-> None, ttl |-> KeyMissing, born |-> 0]
Present(s, k) == s[k].ttl # KeyMissing

\* A read answered from the last known value when the backend fails
get_stale(s, k, ok) == IF Present(s, k) THEN s[k].val ELSE None

get(s, k, ok) == IF ok /\ Present(s, k) THEN s[k].val ELSE None

exists(s, k, ok) == ok /\ Present(s, k)

set(s, k, v, seconds, ok) ==
    IF ok
    THEN [s EXCEPT ![k] = [val |-> v, ttl |-> Ticks(seconds),
                           born |-> IF Present(s, k) THEN @.born ELSE now]]
    ELSE s

delete(s, k, ok) == IF ok THEN [s EXCEPT ![k] = Missing] ELSE s

incr_ret(s, k, ok) ==
    IF ~ok THEN None ELSE IF Present(s, k) THEN s[k].val + 1 ELSE 1

\* A read-then-write increment that loses the update of a key another call
\* has already incremented
incr_lost(s, k, ok) ==
    IF ~ok THEN s
    ELSE IF Present(s, k) THEN s
    ELSE [s EXCEPT ![k] = [val |-> 1, ttl |-> NoExpiry, born |-> now]]

incr(s, k, ok) ==
    IF ~ok THEN s
    ELSE IF Present(s, k) THEN [s EXCEPT ![k].val = @ + 1]
    ELSE [s EXCEPT ![k] = [val |-> 1, ttl |-> NoExpiry, born |-> now]]

expire_ticks(s, k, ticks, ok) ==
    IF ok /\ Present(s, k) THEN [s EXCEPT ![k].ttl = ticks] ELSE s

expire(s, k, seconds, ok) == expire_ticks(s, k, Ticks(seconds), ok)

\* LPUSH puts the value at the head of the list and creates the list when
\* it is absent; RPOP takes the value at the tail and removes a list that
\* became empty.  rpop_ret is <<>> for the None of an empty or absent list
\* or of a failed command, else the one value popped.
\* A push that puts the value at the tail of the list
lpush_tail(s, k, v, ok) ==
    IF ~ok THEN s
    ELSE IF Present(s, k) THEN [s EXCEPT ![k].val = Append(@, v)]
    ELSE [s EXCEPT ![k] = [val |-> <<v>>, ttl |-> NoExpiry, born |-> now]]

lpush(s, k, v, ok) ==
    IF ~ok THEN s
    ELSE IF Present(s, k) THEN [s EXCEPT ![k].val = <<v>> \o @]
    ELSE [s EXCEPT ![k] = [val |-> <<v>>, ttl |-> NoExpiry, born |-> now]]

rpop_ret(s, k, ok) ==
    IF ok /\ Present(s, k) THEN <<s[k].val[Len(s[k].val)]>> ELSE <<>>

rpop(s, k, ok) ==
    IF ~(ok /\ Present(s, k)) THEN s
    ELSE IF Len(s[k].val) = 1 THEN [s EXCEPT ![k] = Missing]
    ELSE [s EXCEPT ![k].val = SubSeq(@, 1, Len(@) - 1)]

\* f"api_requests:{timestamp.strftime('%Y%m%d%H')}": one list per hour
queue_key(h) == <<"api_requests", 0, "", h>>

\* The entries of the queues held by the store
QueueKeysOf(s) == {k \in DOMAIN s : k[1] = "api_requests"}
Queued(s) ==
    UNION {IF Present(s, k)
           THEN {s[k].val[i] : i \in 1 .. Len(s[k].val)}
           ELSE {} : k \in QueueKeysOf(s)}

\* `await self.redis.get(key) or "0"` followed by int(...)
IntOrZero(v) == IF v = None THEN 0 ELSE v

\* `await self.redis.incr(key) or 1`
IncrOrOne(v) == IF v = None \/ v = 0 THEN 1 ELSE v

Max(a, b) == IF a >= b THEN a ELSE b
Min(a, b) == IF a <= b THEN a ELSE b

(***************************************************************************)
(* The environment: a command fails, a process dies, time passes           *)
(***************************************************************************)
\* The outcomes a store command can have.  backend is "up" (every command
\* succeeds), "down" (self.redis is None: every command returns its
\* sentinel) or "flaky" (a command may raise; the failures are counted).
Outcomes ==
    CASE backend = "up" -> {TRUE}
      [] backend = "down" -> {FALSE}
      [] backend = "flaky" -> IF faults < MaxFaults THEN {TRUE, FALSE} ELSE {TRUE}
Fault(ok) ==
    /\ faults' = IF ok \/ backend = "down" THEN faults ELSE faults + 1
    /\ UNCHANGED backend

NoLimits == [per_minute |-> 0, per_hour |-> 0, per_day |-> 0, per_month |-> 0]
\* The durable ledger: the rows of usage_counters and the active rows of
\* subscriptions, for the users of the `users` table
LedgerUsers == {1, 2}
NoLedger == [usage_counters |-> {}, subscriptions |-> {}]
UsageCounter(id, u, from, to, n) ==
    [id |-> id, user_id |-> u, period_start |-> from, period_end |-> to,
     requests_count |-> n]

\* The requests_count of a user over all the user's rows
requests_count(l, u) ==
    LET RECURSIVE Total(_)
        Total(cs) == IF cs = {} THEN 0
                     ELSE LET c == CHOOSE x \in cs : TRUE
                          IN c.requests_count + Total(cs \ {c})
    IN Total({c \in l.usage_counters : c.user_id = u})

\* The history: the 2xx events queued so far for each user, the calls made,
\* each user's requests_count at the start, and the events in the order in
\* which they were queued, each with its hour
NoHist ==
    [pushed |-> [u \in LedgerUsers |-> 0], calls |-> 0,
     base |-> [u \in LedgerUsers |-> 0], log |-> <<>>]

NoLocal == [current |-> 0, win |-> 0, counts |-> [k \in KindSet |-> 0],
            again |-> FALSE, allowed |-> "none", limits |-> NoLimits,
            calls |-> 0, phase |-> "none", outcome |-> "none", reply |-> None,
            user |-> 0, batch |-> <<>>, todo |-> <<>>, hour |-> 0]

NoSlots == [k \in SlotKeys |-> Missing]
NoCounts == [k \in WindowKeys |-> Missing]

(***************************************************************************)
(* RateLimitService: the concurrency slot tracker                          *)
(***************************************************************************)
Plans == {[requests_per_month |-> q, concurrent_requests |-> c] :
            q \in {100}, c \in {1, 2}}

SetPc(r, label) == pc' = [pc EXCEPT ![r] = label]

\* The comparison admitting one request more than the plan allows
check_concurrent_requests_gt(s, u, p, ok) ==
    ~(IntOrZero(get(s, concurrent_key(u), ok)) > p.concurrent_requests)

\* check_concurrent_requests: one read of the user's counter
check_concurrent_requests(s, u, p, ok) ==
    ~(IntOrZero(get(s, concurrent_key(u), ok)) >= p.concurrent_requests)

CheckConcurrent(r) ==
    /\ pc[r] = "idle"
    /\ \E ok \in Outcomes :
         /\ Fault(ok)
         /\ SetPc(r, IF check_concurrent_requests(store, UserOf(r), plan, ok)
                     THEN "admitted" ELSE "denied")
    /\ UNCHANGED <<store, now, loc, crashes, expired, plan, ledger, hist, running>>

\* acquire_concurrent_slot, its three commands
AcquireIncr(r) ==
    /\ pc[r] = "admitted"
    /\ \E ok \in Outcomes :
         /\ Fault(ok)
         /\ store' = incr(store, concurrent_key(UserOf(r)), ok)
    /\ SetPc(r, "acq_expire")
    /\ UNCHANGED <<now, loc, crashes, expired, plan, ledger, hist, running>>

AcquireExpire(r) ==
    /\ pc[r] = "acq_expire"
    /\ \E ok \in Outcomes :
         /\ Fault(ok)
         /\ store' = expire(store, concurrent_key(UserOf(r)), SlotSeconds, ok)
    /\ SetPc(r, "acq_set")
    /\ UNCHANGED <<now, loc, crashes, expired, plan, ledger, hist, running>>

AcquireSet(r) ==
    /\ pc[r] = "acq_set"
    /\ \E ok \in Outcomes :
         /\ Fault(ok)
         /\ store' = set(store, slot_key(UserOf(r), r), 1, SlotSeconds, ok)
    /\ SetPc(r, "held")
    /\ UNCHANGED <<now, loc, crashes, expired, plan, ledger, hist, running>>

\* A release that does not look at the slot marker
ReleaseExists_unchecked(r) ==
    /\ pc[r] = "held" \/ (pc[r] = "released" /\ ~loc[r].again)
    /\ \E ok \in Outcomes : Fault(ok)
    /\ SetPc(r, "rel_get")
    /\ loc' = [loc EXCEPT ![r].again = (pc[r] = "released")]
    /\ UNCHANGED <<store, now, crashes, expired, plan, ledger, hist, running>>

\* release_concurrent_slot: `if await self.redis.exists(slot_key)`.  The
\* call is made once the slot is held, and may be made again afterwards
\* (a cleanup path after the normal completion path).
ReleaseExists(r) ==
    /\ pc[r] = "held" \/ (pc[r] = "released" /\ ~loc[r].again)
    /\ \E ok \in Outcomes :
         /\ Fault(ok)
         /\ SetPc(r, IF exists(store, slot_key(UserOf(r), r), ok)
                     THEN "rel_get" ELSE "released")
    /\ loc' = [loc EXCEPT ![r].again = (pc[r] = "released")]
    /\ UNCHANGED <<store, now, crashes, expired, plan, ledger, hist, running>>

\* `current = max(0, int(current) - 1)`
release_decrement(current) == Max(0, current - 1)

ReleaseGet(r) ==
    /\ pc[r] = "rel_get"
    /\ \E ok \in Outcomes :
         /\ Fault(ok)
         /\ loc' = [loc EXCEPT ![r].current =
                      release_decrement(
                        IntOrZero(get(store, concurrent_key(UserOf(r)), ok)))]
    /\ SetPc(r, "rel_write")
    /\ UNCHANGED <<store, now, crashes, expired, plan, ledger, hist, running>>

\* `if current > 0: set(concurrent_key, str(current), 300) else: delete`
release_write(s, u, current, ok) ==
    IF current > 0
    THEN set(s, concurrent_key(u), current, ReleaseSeconds, ok)
    ELSE delete(s, concurrent_key(u), ok)

ReleaseWrite(r) ==
    /\ pc[r] = "rel_write"
    /\ \E ok \in Outcomes :
         /\ Fault(ok)
         /\ store' = release_write(store, UserOf(r), loc[r].current, ok)
    /\ loc' = [loc EXCEPT ![r].current = 0]
    /\ SetPc(r, "rel_delete")
    /\ UNCHANGED <<now, crashes, expired, plan, ledger, hist, running>>

ReleaseDelete(r) ==
    /\ pc[r] = "rel_delete"
    /\ \E ok \in Outcomes :
         /\ Fault(ok)
         /\ store' = delete(store, slot_key(UserOf(r), r), ok)
    /\ SetPc(r, "released")
    /\ UNCHANGED <<now, loc, crashes, expired, plan, ledger, hist, running>>

\* The process handling the request dies: nothing more is executed for it
InFlight == {"acq_expire", "acq_set", "held", "rel_get", "rel_write",
             "rel_delete", "inc_hour", "inc_day", "inc_month", "exp_minute",
             "exp_hour", "exp_day", "exp_month"}

Crash(r) ==
    /\ pc[r] \in InFlight
    /\ crashes < MaxCrashes
    /\ crashes' = crashes + 1
    /\ SetPc(r, IF pc[r] = "held" THEN "died_holding" ELSE "died")
    /\ UNCHANGED <<backend, store, now, loc, faults, expired, plan, ledger, hist, running>>

\* A further request of the user, with a fresh uuid4 request id: the slot
\* of a finished request whose marker is gone is taken again
NewRequest(r) ==
    /\ pc[r] \in {"released", "denied"}
    /\ ~Present(store, slot_key(UserOf(r), r))
    /\ SetPc(r, "idle")
    /\ loc' = [loc EXCEPT ![r] = NoLocal]
    /\ UNCHANGED <<backend, store, now, faults, crashes, expired, plan, ledger, hist, running>>

\* A key whose time to live has run out expires during the current minute
Expire(k) ==
    /\ store[k].ttl = 0
    /\ store' = [store EXCEPT ![k] = Missing]
    /\ expired' = TRUE
    /\ UNCHANGED <<backend, now, pc, loc, faults, crashes, plan, ledger, hist, running>>

\* A minute passes
Decay(s) ==
    [k \in Keys |->
       IF s[k].ttl = 0 THEN Missing
       ELSE IF s[k].ttl > 0 THEN [s[k] EXCEPT !.ttl = @ - 1]
       ELSE s[k]]

TTLTick ==
    /\ \E k \in Keys : store[k].ttl >= 0
    /\ store' = Decay(store)
    /\ expired' = (expired \/ \E k \in Keys : store[k].ttl = 0)
    /\ UNCHANGED <<backend, now, pc, loc, faults, crashes, plan, ledger, hist, running>>

Init ==
    /\ store = NoSlots
    /\ now = 0
    /\ pc = [r \in 1 .. NumReqs |-> "idle"]
    /\ loc = [r \in 1 .. NumReqs |-> NoLocal]
    /\ backend = "flaky"
    /\ faults = 0
    /\ crashes = 0
    /\ expired = FALSE
    /\ running = TRUE
    /\ ledger = NoLedger
    /\ hist = NoHist
    /\ plan \in Plans

\* Between two steps any amount of time may pass: a key that has a time to
\* live may be gone at the next step
Lapse(k) ==
    /\ store[k].ttl >= 0
    /\ store' = [store EXCEPT ![k] = Missing]
    /\ expired' = TRUE
    /\ UNCHANGED <<backend, now, pc, loc, faults, crashes, plan, ledger, hist, running>>

Next ==
    \/ \E r \in Reqs : CheckConcurrent(r)
    \/ \E r \in Reqs : AcquireIncr(r)
    \/ \E r \in Reqs : AcquireExpire(r)
    \/ \E r \in Reqs : AcquireSet(r)
    \/ \E r \in Reqs : ReleaseExists(r)
    \/ \E r \in Reqs : ReleaseGet(r)
    \/ \E r \in Reqs : ReleaseWrite(r)
    \/ \E r \in Reqs : ReleaseDelete(r)
    \/ \E k \in Keys : Lapse(k)

Spec == Init /\ [][Next]_vars

\* The counter as a reader sees it, and the slot markers that exist
ConcurrentCount(u) == IntOrZero(get(store, concurrent_key(u), TRUE))
Markers(u) == {r \in Reqs : UserOf(r) = u /\ Present(store, slot_key(u, r))}
Quiescent(u) ==
    \A r \in Reqs : UserOf(r) = u =>
        pc[r] \in {"idle", "denied", "held", "released", "died", "died_holding"}

(***************************************************************************)
(* Claims about the slot tracker                                           *)
(***************************************************************************)
\* A request whose release has written the counter and not yet deleted its
\* marker
Releasing(r) == pc[r] = "rel_delete"

\* C3: when release interleaves with acquire or release of another request
\* of the user (no command fails, nothing dies, nothing expires), the
\* user's concurrent counter is never lower than the number of slot
\* markers that exist for the user (a marker whose own release has already
\* taken its decrement is not counted)
C3_NeverUnderCounts ==
    (faults = 0 /\ crashes = 0 /\ ~expired) =>
        \A u \in Users :
            ConcurrentCount(u) >=
                Cardinality({r \in Markers(u) : ~Releasing(r)})

\* C4: with no acquire or release in progress, and no crash and no expiry
\* so far, the concurrent counter equals the number of slot markers of the
\* user, also after commands that returned the unavailable sentinel
C4_CounterEqualsMarkers ==
    \A u \in Users :
        (Quiescent(u) /\ crashes = 0 /\ ~expired) =>
            ConcurrentCount(u) = Cardinality(Markers(u))

\* C35: while no command has failed, nothing died and nothing expired, the
\* requests of the user that hold a slot (acquire returned, release not yet
\* called) are at most concurrent_requests.
C35_SlotsWithinLimit ==
    (faults = 0 /\ crashes = 0 /\ ~expired) =>
        \A u \in Users :
            Cardinality({r \in Reqs : UserOf(r) = u /\ pc[r] = "held"})
                <= plan.concurrent_requests

\* The step in which request r calls release_concurrent_slot
ReleaseCall(r) ==
    \/ pc[r] = "held" /\ pc'[r] \in {"rel_get", "released"}
    \/ pc[r] = "released" /\ ~loc[r].again /\ loc'[r].again

CounterNonNegative ==
    \A u \in Users :
        Present(store, concurrent_key(u)) => store[concurrent_key(u)].val >= 0

\* C5: release_concurrent_slot called while the slot marker of its request
\* is absent returns at once and changes no key of the store (so a second
\* release after one that removed the marker changes nothing), and the
\* concurrent counter is never negative
C5_ReleaseAbsentIsNoOp ==
    /\ []CounterNonNegative
    /\ [][\A r \in Reqs :
            (ReleaseCall(r) /\ ~Present(store, slot_key(UserOf(r), r))) =>
                (store' = store /\ pc'[r] = "released")]_vars

\* C5 witness: a request has been released twice, the second call found no
\* marker, while another request of the user still holds its slot
C5_Witness ==
    \E r, q \in Reqs :
        /\ pc[r] = "released" /\ loc[r].again
        /\ ~Present(store, slot_key(UserOf(r), r))
        /\ pc[q] = "held" /\ UserOf(q) = UserOf(r)
        /\ ConcurrentCount(UserOf(r)) = 1

(***************************************************************************)
(* The slot tracker with the store reachable and time counted: keys decay  *)
(* minute by minute, and the user goes on sending requests                 *)
(***************************************************************************)
InitUp ==
    /\ store = NoSlots
    /\ now = 0
    /\ pc = [r \in 1 .. NumReqs |-> "idle"]
    /\ loc = [r \in 1 .. NumReqs |-> NoLocal]
    /\ backend = "up"
    /\ faults = 0
    /\ crashes = 0
    /\ expired = FALSE
    /\ running = TRUE
    /\ ledger = NoLedger
    /\ hist = NoHist
    /\ plan \in Plans

\* The next command of request r's task
Step(r) ==
    \/ CheckConcurrent(r)
    \/ AcquireIncr(r)
    \/ AcquireExpire(r)
    \/ AcquireSet(r)
    \/ ReleaseExists(r)
    \/ ReleaseGet(r)
    \/ ReleaseWrite(r)
    \/ ReleaseDelete(r)
    \/ NewRequest(r)

NextTimedSlots ==
    \/ \E r \in Reqs : Step(r)
    \/ \E r \in Reqs : Crash(r)
    \/ \E k \in Keys : Expire(k)
    \/ TTLTick

\* Time passes, every task that can run is scheduled, and the user keeps
\* issuing requests
FairSpecTimedSlots ==
    /\ InitUp
    /\ [][NextTimedSlots]_vars
    /\ WF_vars(TTLTick)
    /\ \A r \in 1 .. NumReqs : WF_vars(Step(r))

\* The requests of the user that have taken their increment of the counter
\* and not yet written their decrement
OpenSlots(u) ==
    {r \in Reqs : UserOf(r) = u /\
        pc[r] \in {"acq_expire", "acq_set", "held", "rel_get", "rel_write"}}

\* C6: after a process died holding a slot, the slot marker disappears and
\* the concurrent counter eventually equals the number of slots open for
\* the user, also while the user keeps issuing and completing requests
C6_LeakHeals ==
    \A r \in 1 .. NumReqs :
        /\ (pc[r] = "died_holding") ~> ~Present(store, slot_key(UserOf(r), r))
        /\ (pc[r] = "died_holding") ~>
              (ConcurrentCount(UserOf(r)) = Cardinality(OpenSlots(UserOf(r))))

(***************************************************************************)
(* The slot tracker used by one caller at a time: the check and the        *)
(* acquire of a request, and a release, run to their end before the next   *)
(* call starts; the store is reachable and no key expires                  *)
(***************************************************************************)
InitSeq ==
    /\ store = NoSlots
    /\ now = 0
    /\ pc = [r \in 1 .. NumSeqReqs |-> "idle"]
    /\ loc = [r \in 1 .. NumSeqReqs |-> NoLocal]
    /\ backend = "up"
    /\ faults = 0
    /\ crashes = 0
    /\ expired = FALSE
    /\ running = TRUE
    /\ ledger = NoLedger
    /\ hist = NoHist
    /\ plan \in Plans

\* No other request is inside a call of the tracker
Alone(r) ==
    \A q \in Reqs \ {r} : pc[q] \in {"idle", "denied", "held", "released"}

NextSeq ==
    \/ \E r \in Reqs : Alone(r) /\ CheckConcurrent(r)
    \/ \E r \in Reqs : Alone(r) /\ AcquireIncr(r)
    \/ \E r \in Reqs : Alone(r) /\ AcquireExpire(r)
    \/ \E r \in Reqs : Alone(r) /\ AcquireSet(r)
    \/ \E r \in Reqs : Alone(r) /\ ReleaseExists(r)
    \/ \E r \in Reqs : Alone(r) /\ ReleaseGet(r)
    \/ \E r \in Reqs : Alone(r) /\ ReleaseWrite(r)
    \/ \E r \in Reqs : Alone(r) /\ ReleaseDelete(r)

SpecSeq == InitSeq /\ [][NextSeq]_vars

\* The slots acquired and not yet released
Held == {q \in Reqs : pc[q] = "held"}

\* C7: handled one call at a time, check_concurrent_requests returns True
\* exactly when the acquires minus the releases so far are below the plan's
\* concurrent_requests
C7_CheckMatchesHeldSlots ==
    [][\A r \in Reqs :
          (pc[r] = "idle" /\ pc'[r] \in {"admitted", "denied"}) =>
              (pc'[r] = "admitted" <=>
                  Cardinality(Held) < plan.concurrent_requests)]_vars

\* C7 witness: with a limit of 2, requests 1 and 2 acquired, request 3 was
\* refused, request 1 released, and request 4 is admitted
C7_Witness ==
    /\ plan.concurrent_requests = 2
    /\ pc[1] = "released" /\ pc[2] = "held"
    /\ pc[3] = "denied" /\ pc[4] = "admitted"

(***************************************************************************)
(* RateLimitService: the window counters                                   *)
(***************************************************************************)
\* _get_plan_limits without the floor of the hourly limit
_get_plan_limits_nofloor(p) ==
    LET q == p.requests_per_month
        base_limits ==
            [per_minute |-> Min(q \div (30 * 24 * 60), 100),
             per_hour |-> Min(q \div (30 * 24), 6000),
             per_day |-> Min(q \div 30, 144000),
             per_month |-> q]
    IN  [base_limits EXCEPT !.per_minute = Max(@, 1),
                            !.per_day = Max(@, 1440)]

\* _get_plan_limits without the caps of 100, 6000 and 144000
_get_plan_limits_nocap(p) ==
    LET q == p.requests_per_month
        base_limits ==
            [per_minute |-> q \div (30 * 24 * 60),
             per_hour |-> q \div (30 * 24),
             per_day |-> q \div 30,
             per_month |-> q]
    IN  [base_limits EXCEPT !.per_minute = Max(@, 1),
                            !.per_hour = Max(@, 60),
                            !.per_day = Max(@, 1440)]

\* _get_plan_limits
_get_plan_limits(p) ==
    LET q == p.requests_per_month
        base_limits ==
            [per_minute |-> Min(q \div (30 * 24 * 60), 100),
             per_hour |-> Min(q \div (30 * 24), 6000),
             per_day |-> Min(q \div 30, 144000),
             per_month |-> q]
    IN  [base_limits EXCEPT !.per_minute = Max(@, 1),
                            !.per_hour = Max(@, 60),
                            !.per_day = Max(@, 1440)]

\* The cascade with `>` in place of `>=`
is_allowed_strict(counts, limits) ==
    IF counts.minute > limits.per_minute THEN FALSE
    ELSE IF counts.hour > limits.per_hour THEN FALSE
    ELSE IF counts.day > limits.per_day THEN FALSE
    ELSE IF counts.month > limits.per_month THEN FALSE
    ELSE TRUE

\* check_rate_limit, `# Check each limit`
is_allowed(counts, limits) ==
    IF counts.minute >= limits.per_minute THEN FALSE
    ELSE IF counts.hour >= limits.per_hour THEN FALSE
    ELSE IF counts.day >= limits.per_day THEN FALSE
    ELSE IF counts.month >= limits.per_month THEN FALSE
    ELSE TRUE

\* The key of the window of kind Kinds[i] that minute t lies in
KeyAt(r, i, t) == window_key(UserOf(r), Kinds[i], WindowOf(Kinds[i], t))

\* check_rate_limit: now = utcnow(), then one read per window, then the
\* limits and the decision
ChkLabel == <<"idle", "chk_hour", "chk_day", "chk_month">>

\* A check that counts the request in the window it reads
CheckRead_counting(r, i) ==
    /\ pc[r] = ChkLabel[i]
    /\ \E ok \in Outcomes :
         LET t == IF i = 1 THEN now ELSE loc[r].win
             counts == [loc[r].counts EXCEPT
                          ![Kinds[i]] = IntOrZero(get(store, KeyAt(r, i, t), ok))]
             limits == _get_plan_limits(plan)
         IN  /\ Fault(ok)
             /\ store' = incr(store, KeyAt(r, i, t), ok)
             /\ loc' = [loc EXCEPT
                  ![r].win = t,
                  ![r].counts = counts,
                  ![r].limits = IF i = 4 THEN limits ELSE @,
                  ![r].allowed = IF i < 4 THEN @
                                 ELSE IF is_allowed(counts, limits)
                                      THEN "yes" ELSE "no"]
    /\ SetPc(r, IF i < 4 THEN ChkLabel[i + 1] ELSE "checked")
    /\ UNCHANGED <<now, crashes, expired, plan, ledger, hist, running>>

CheckRead(r, i) ==
    /\ pc[r] = ChkLabel[i]
    /\ \E ok \in Outcomes :
         LET t == IF i = 1 THEN now ELSE loc[r].win
             counts == [loc[r].counts EXCEPT
                          ![Kinds[i]] = IntOrZero(get(store, KeyAt(r, i, t), ok))]
             limits == _get_plan_limits(plan)
         IN  /\ Fault(ok)
             /\ loc' = [loc EXCEPT
                  ![r].win = t,
                  ![r].counts = counts,
                  ![r].limits = IF i = 4 THEN limits ELSE @,
                  ![r].allowed = IF i < 4 THEN @
                                 ELSE IF is_allowed(counts, limits)
                                      THEN "yes" ELSE "no"]
    /\ SetPc(r, IF i < 4 THEN ChkLabel[i + 1] ELSE "checked")
    /\ UNCHANGED <<store, now, crashes, expired, plan, ledger, hist, running>>

\* increment_usage: the time to live of a new window key, in minutes; the
\* month key lives until the start of the next month
window_ttl(kind, t) ==
    CASE kind = "minute" -> Ticks(MinuteSeconds)
      [] kind = "hour" -> Ticks(HourSeconds)
      [] kind = "day" -> Ticks(DaySeconds)
      [] kind = "month" -> (WindowOf("month", t) + 1) * (30 * 24 * 60) - t

IncLabel == <<"idle", "inc_hour", "inc_day", "inc_month">>
ExpLabel == <<"exp_minute", "exp_hour", "exp_day", "exp_month">>

\* An increment_usage that sets the expiry of every key on every call
AfterExpire_always(counts, i) ==
    IF i = 4 THEN "inc_done" ELSE ExpLabel[i + 1]

\* `if minute_count == 1: await self.redis.expire(...)`, and so on: the
\* next expire command of the call after the i-th, or its end
AfterExpire(counts, i) ==
    LET todo == {j \in (i + 1) .. 4 : counts[Kinds[j]] = 1}
    IN  IF todo = {} THEN "inc_done"
        ELSE ExpLabel[CHOOSE j \in todo : \A h \in todo : j <= h]

\* The counts are the call's locals: its caller drops the dict it returns
Kept(counts, label) == IF label = "inc_done" THEN NoLocal.counts ELSE counts

Returned(r, label) ==
    IF label = "inc_done" THEN loc[r].calls + 1 ELSE loc[r].calls

UsageIncr(r, i) ==
    /\ pc[r] = IncLabel[i]
    /\ loc[r].calls < MaxCalls
    /\ \E ok \in Outcomes :
         LET t == IF i = 1 THEN now ELSE loc[r].win
             k == KeyAt(r, i, t)
             counts == [loc[r].counts EXCEPT
                          ![Kinds[i]] = IncrOrOne(incr_ret(store, k, ok))]
             next == IF i < 4 THEN IncLabel[i + 1] ELSE AfterExpire(counts, 0)
         IN  /\ Fault(ok)
             /\ store' = incr(store, k, ok)
             /\ loc' = [loc EXCEPT ![r].win = t,
                                   ![r].counts = Kept(counts, next),
                                   ![r].calls = Returned(r, next)]
             /\ SetPc(r, next)
    /\ UNCHANGED <<now, crashes, expired, plan, ledger, hist, running>>

UsageExpire(r, i) ==
    /\ pc[r] = ExpLabel[i]
    /\ \E ok \in Outcomes :
         /\ Fault(ok)
         /\ store' = expire_ticks(store, KeyAt(r, i, loc[r].win),
                                  window_ttl(Kinds[i], loc[r].win), ok)
    /\ LET next == AfterExpire(loc[r].counts, i)
       IN  /\ loc' = [loc EXCEPT ![r].counts = Kept(@, next),
                                 ![r].calls = Returned(r, next)]
           /\ SetPc(r, next)
    /\ UNCHANGED <<now, crashes, expired, plan, ledger, hist, running>>

\* The caller makes its next call
NewCall(r) ==
    /\ pc[r] \in {"inc_done", "checked"}
    /\ SetPc(r, "idle")
    /\ loc' = [loc EXCEPT ![r] = [NoLocal EXCEPT !.calls = loc[r].calls]]
    /\ UNCHANGED <<backend, store, now, faults, crashes, expired, plan, ledger, hist, running>>

\* A minute passes on the clock
Tick ==
    /\ now + 1 \in Times
    /\ now' = now + 1
    /\ store' = Decay(store)
    /\ expired' = (expired \/ \E k \in Keys : store[k].ttl = 0)
    /\ UNCHANGED <<backend, pc, loc, faults, crashes, plan, ledger, hist, running>>

\* seed_data.py, the Free plan
FreePlan == [requests_per_month |-> 100, concurrent_requests |-> 1]

(***************************************************************************)
(* increment_usage called by concurrent tasks, over a store that may fail, *)
(* in processes that may die, while time passes                            *)
(***************************************************************************)
InitUsage ==
    /\ store = NoCounts
    /\ now \in StartTimes
    /\ pc = [r \in 1 .. NumReqs |-> "idle"]
    /\ loc = [r \in 1 .. NumReqs |-> NoLocal]
    /\ backend = "flaky"
    /\ faults = 0
    /\ crashes = 0
    /\ expired = FALSE
    /\ running = TRUE
    /\ ledger = NoLedger
    /\ hist = NoHist
    /\ plan = FreePlan

NextUsage ==
    \/ \E r \in Reqs, i \in 1 .. 4 : UsageIncr(r, i)
    \/ \E r \in Reqs, i \in 1 .. 4 : UsageExpire(r, i)
    \/ \E r \in Reqs : Crash(r)
    \/ \E k \in Keys : Expire(k)
    \/ Tick

SpecUsage == InitUsage /\ [][NextUsage]_vars

\* The calls of one minute window, over a reachable store, in processes
\* that stay alive
InitUsageUp ==
    /\ store = NoCounts
    /\ now \in StartTimes
    /\ pc = [r \in 1 .. NumReqs |-> "idle"]
    /\ loc = [r \in 1 .. NumReqs |-> NoLocal]
    /\ backend = "up"
    /\ faults = 0
    /\ crashes = 0
    /\ expired = FALSE
    /\ running = TRUE
    /\ ledger = NoLedger
    /\ hist = NoHist
    /\ plan = FreePlan

NextUsageUp ==
    \/ \E r \in Reqs, i \in 1 .. 4 : UsageIncr(r, i)
    \/ \E r \in Reqs, i \in 1 .. 4 : UsageExpire(r, i)

SpecUsageUp == InitUsageUp /\ [][NextUsageUp]_vars

\* The value of a window counter, 0 when the key is absent
Count(kind, t) ==
    LET k == window_key(1, kind, WindowOf(kind, t))
    IN  IF Present(store, k) THEN store[k].val ELSE 0

\* C8: once all N concurrent increment_usage calls of one minute window have
\* returned, the minute counter of that window equals N
C8_NoLostIncrement ==
    (\A r \in Reqs : pc[r] = "inc_done") =>
        Count("minute", now) = Cardinality(Reqs)

\* C8 witness: at least two calls ran and returned, and the minute counter
\* holds their number
C8_Witness ==
    /\ Cardinality(Reqs) >= 2
    /\ \A r \in Reqs : pc[r] = "inc_done" /\ loc[r].calls = 1
    /\ Count("minute", now) = Cardinality(Reqs)

\* An increment_usage call that has incremented a key and not yet returned
UsageInProgress(r) ==
    pc[r] \in {"inc_hour", "inc_day", "inc_month",
               "exp_minute", "exp_hour", "exp_day", "exp_month"}

\* C9: a window key still present after its creation time plus its window
\* length has an expiry running, or a call in progress that can still set
\* it: no window key outlives its window for good
C9_WindowKeysExpire ==
    \A k \in Keys :
        (/\ k[1] = "rate_limit"
         /\ Present(store, k)
         /\ now > store[k].born + window_ttl(k[3], store[k].born)) =>
            \/ store[k].ttl # NoExpiry
            \/ \E r \in Reqs : UsageInProgress(r)

(***************************************************************************)
(* check_rate_limit applied to plans and window counts around the          *)
(* thresholds                                                              *)
(***************************************************************************)
\* Monthly quotas: the seeded plans (100, 10000, 100000) and the values
\* around which a floor or a cap of _get_plan_limits starts to apply
QuotaSamples ==
    {1, 100, 1439, 1440, 1441, 10000, 43199, 43200, 43230, 86400, 100000,
     4319999, 4320000, 4320001, 5000000}

LimitOf(limits, kind) ==
    CASE kind = "minute" -> limits.per_minute
      [] kind = "hour" -> limits.per_hour
      [] kind = "day" -> limits.per_day
      [] kind = "month" -> limits.per_month

\* The store holds, for each window of minute 0, a count one below, at or
\* above the plan's threshold, or no key
InitCheck ==
    /\ now = 0
    /\ plan \in {[requests_per_month |-> q, concurrent_requests |-> 1] :
                    q \in QuotaSamples}
    /\ \E d \in [KindSet -> {-1, 0, 1}] :
         store = [k \in WindowKeys |->
                    IF k[1] = "rate_limit" /\ k[4] = 0
                       /\ LimitOf(_get_plan_limits(plan), k[3]) + d[k[3]] > 0
                    THEN [val |-> LimitOf(_get_plan_limits(plan), k[3]) + d[k[3]],
                          ttl |-> window_ttl(k[3], 0), born |-> 0]
                    ELSE Missing]
    /\ pc = [r \in {1} |-> "idle"]
    /\ loc = [r \in {1} |-> NoLocal]
    /\ backend = "up"
    /\ faults = 0
    /\ crashes = 0
    /\ expired = FALSE
    /\ running = TRUE
    /\ ledger = NoLedger
    /\ hist = NoHist

NextCheck == \E r \in Reqs, i \in 1 .. 4 : CheckRead(r, i)

SpecCheck == InitCheck /\ [][NextCheck]_vars

\* C1 as stated: for every positive quota the derived limits are ordered
\* per_minute <= per_hour <= per_day <= per_month
C1_LimitsMonotone ==
    \A r \in Reqs :
        pc[r] = "checked" =>
            /\ loc[r].limits.per_minute <= loc[r].limits.per_hour
            /\ loc[r].limits.per_hour <= loc[r].limits.per_day
            /\ loc[r].limits.per_day <= loc[r].limits.per_month

\* C1 amended: for every positive quota per_minute <= per_hour <= per_day,
\* and per_day <= per_month exactly when the quota is at least the daily
\* floor of 1440
C1_LimitsMonotoneAboveFloor ==
    \A r \in Reqs :
        pc[r] = "checked" =>
            /\ loc[r].limits.per_minute <= loc[r].limits.per_hour
            /\ loc[r].limits.per_hour <= loc[r].limits.per_day
            /\ loc[r].limits.per_day <= loc[r].limits.per_month
                   <=> plan.requests_per_month >= 1440

\* C1 witness: the limits of the seeded 100000-per-month plan, none of them
\* a floor or a cap, are computed
C1_Witness ==
    /\ pc[1] = "checked"
    /\ plan.requests_per_month = 100000
    /\ loc[1].limits = [per_minute |-> 2, per_hour |-> 138,
                        per_day |-> 3333, per_month |-> 100000]

\* The windows whose current count is at or over the derived threshold
FullWindows ==
    {kind \in KindSet :
        Count(kind, now) >= LimitOf(_get_plan_limits(plan), kind)}

\* The four threshold tests made in the given order, stopping at the first
\* full window
RECURSIVE Cascade(_, _)
Cascade(order, i) ==
    IF i > Len(order) THEN TRUE
    ELSE IF order[i] \in FullWindows THEN FALSE
    ELSE Cascade(order, i + 1)

Orders ==
    {o \in [1 .. 4 -> KindSet] : \A kind \in KindSet : \E i \in 1 .. 4 : o[i] = kind}

\* C2: check_rate_limit returns False exactly when some window count is at
\* or over its threshold, and the tests made in any other order give the
\* same answer
C2_DeniedIffSomeWindowFull ==
    \A r \in Reqs :
        pc[r] = "checked" =>
            /\ loc[r].allowed = "no" <=> FullWindows # {}
            /\ \A o \in Orders : Cascade(o, 1) <=> loc[r].allowed = "yes"

\* C2 witness: a check denied although the minute, hour and day counts are
\* below their thresholds, the month count being exactly at its threshold
C2_Witness ==
    /\ pc[1] = "checked"
    /\ loc[1].allowed = "no"
    /\ FullWindows = {"month"}
    /\ Count("month", now) = plan.requests_per_month

\* C29: the derived limits are per_month = q, per_day = q div 30 clamped
\* to [1440, 144000], per_hour = q div 720 clamped to [60, 6000] and
\* per_minute = q div 43200 clamped to [1, 100]; per_minute is at least 1.
C29_ClampFormulas ==
    \A r \in Reqs :
        pc[r] = "checked" =>
            LET q == plan.requests_per_month
            IN  /\ loc[r].limits.per_month = q
                /\ loc[r].limits.per_day = Min(Max(q \div 30, 1440), 144000)
                /\ loc[r].limits.per_hour = Min(Max(q \div 720, 60), 6000)
                /\ loc[r].limits.per_minute = Min(Max(q \div 43200, 1), 100)
                /\ loc[r].limits.per_minute >= 1
\* The limits of a quota of 5000000, where all three caps apply, and of a
\* quota of 1, where all three floors apply, are computed
C29_Witness ==
    /\ pc[1] = "checked"
    /\ \/ /\ plan.requests_per_month = 5000000
          /\ loc[1].limits = [per_minute |-> 100, per_hour |-> 6000,
                              per_day |-> 144000, per_month |-> 5000000]
       \/ /\ plan.requests_per_month = 1
          /\ loc[1].limits = [per_minute |-> 1, per_hour |-> 60,
                              per_day |-> 1440, per_month |-> 1]

(***************************************************************************)
(* One caller on the Free plan alternating check_rate_limit and            *)
(* increment_usage, from the last minute of a day over midnight            *)
(***************************************************************************)
Midnight == 24 * 60

InitQuota ==
    /\ store = NoCounts
    /\ now = Midnight - 1
    /\ pc = [r \in {1} |-> "idle"]
    /\ loc = [r \in {1} |-> NoLocal]
    /\ backend = "up"
    /\ faults = 0
    /\ crashes = 0
    /\ expired = FALSE
    /\ running = TRUE
    /\ ledger = NoLedger
    /\ hist = NoHist
    /\ plan = FreePlan

NextQuota ==
    \/ \E r \in Reqs, i \in 1 .. 4 : CheckRead(r, i)
    \/ \E r \in Reqs, i \in 1 .. 4 : UsageIncr(r, i)
    \/ \E r \in Reqs, i \in 1 .. 4 : UsageExpire(r, i)
    \/ \E r \in Reqs : NewCall(r)
    \/ \E k \in Keys : Expire(k)
    \/ (now < Midnight /\ Tick)

SpecQuota == InitQuota /\ [][NextQuota]_vars

\* C10: the Free plan's quota of 100 derives the limits 1, 60, 1440 and 100,
\* and the check that follows 100 increment_usage calls of one month is
\* refused and reports a month count of 100
C10_QuotaExhausted ==
    \A r \in Reqs :
        (pc[r] = "checked" /\ loc[r].calls = 100) =>
            /\ loc[r].limits = [per_minute |-> 1, per_hour |-> 60,
                                per_day |-> 1440, per_month |-> 100]
            /\ loc[r].allowed = "no"
            /\ loc[r].counts.month = 100

\* C10 witness: the 101st check is refused by the month window alone, the
\* minute, hour and day windows having rolled over at midnight
C10_Witness ==
    /\ pc[1] = "checked"
    /\ loc[1].calls = 100
    /\ loc[1].allowed = "no"
    /\ loc[1].counts = [minute |-> 0, hour |-> 0, day |-> 0, month |-> 100]

InitDown ==
    /\ now = 0
    /\ plan \in {[requests_per_month |-> q, concurrent_requests |-> c] :
                    q \in {100, 10000, 100000}, c \in {1, 5}}
    /\ \E d \in [KindSet -> {-1, 0, 1}], e \in {-1, 0, 1} :
         store = [k \in SlotKeys \cup WindowKeys |->
                    IF k[1] = "rate_limit" /\ k[4] = 0
                       /\ LimitOf(_get_plan_limits(plan), k[3]) + d[k[3]] > 0
                    THEN [val |-> LimitOf(_get_plan_limits(plan), k[3]) + d[k[3]],
                          ttl |-> window_ttl(k[3], 0), born |-> 0]
                    ELSE IF k = concurrent_key(1)
                            /\ plan.concurrent_requests + e > 0
                    THEN [val |-> plan.concurrent_requests + e,
                          ttl |-> Ticks(SlotSeconds), born |-> 0]
                    ELSE Missing]
    /\ pc = [r \in 1 .. NumReqs |-> "idle"]
    /\ loc = [r \in 1 .. NumReqs |-> NoLocal]
    /\ backend = "down"
    /\ faults = 0
    /\ crashes = 0
    /\ expired = FALSE
    /\ running = TRUE
    /\ ledger = NoLedger
    /\ hist = NoHist

NextDown ==
    \/ \E r \in Reqs, i \in 1 .. 4 : CheckRead(r, i)
    \/ \E r \in Reqs : CheckConcurrent(r)

SpecDown == InitDown /\ [][NextDown]_vars

\* The same stores and plans while the store answers, or fails once
InitFrame ==
    /\ now = 0
    /\ plan \in {[requests_per_month |-> q, concurrent_requests |-> c] :
                    q \in {100, 10000, 100000}, c \in {1, 5}}
    /\ \E d \in [KindSet -> {-1, 0, 1}], e \in {-1, 0, 1} :
         store = [k \in SlotKeys \cup WindowKeys |->
                    IF k[1] = "rate_limit" /\ k[4] = 0
                       /\ LimitOf(_get_plan_limits(plan), k[3]) + d[k[3]] > 0
                    THEN [val |-> LimitOf(_get_plan_limits(plan), k[3]) + d[k[3]],
                          ttl |-> window_ttl(k[3], 0), born |-> 0]
                    ELSE IF k = concurrent_key(1)
                            /\ plan.concurrent_requests + e > 0
                    THEN [val |-> plan.concurrent_requests + e,
                          ttl |-> Ticks(SlotSeconds), born |-> 0]
                    ELSE IF k = slot_key(1, 1)
                    THEN [val |-> 1, ttl |-> Ticks(SlotSeconds), born |-> 0]
                    ELSE Missing]
    /\ pc = [r \in {1} |-> "idle"]
    /\ loc = [r \in {1} |-> NoLocal]
    /\ backend \in {"up", "flaky"}
    /\ faults = 0
    /\ crashes = 0
    /\ expired = FALSE
    /\ running = TRUE
    /\ ledger = NoLedger
    /\ hist = NoHist

SpecFrame == InitFrame /\ [][NextCheck]_vars

\* C30: no step of check_rate_limit changes the store: every key, value and
\* time to live is the same after the step as before it.
C30_CheckLeavesStore ==
    [][\A r \in Reqs : pc'[r] # pc[r] => store' = store]_vars
\* A check that denied and a check that admitted, made over a store that
\* holds window counters, the concurrent counter and a slot marker
C30_Witness ==
    /\ pc[1] = "checked"
    /\ loc[1].allowed = "no"
    /\ Present(store, concurrent_key(1))
    /\ Present(store, slot_key(1, 1))
    /\ \E k \in KindSet : Present(store, window_key(1, k, 0))

\* C11: while the store is unreachable check_rate_limit returns True and
\* check_concurrent_requests returns True, whatever the counters hold
C11_FailOpen ==
    \A r \in Reqs :
        /\ pc[r] = "checked" => loc[r].allowed = "yes"
        /\ pc[r] # "denied"

\* C11 witness: one request passed check_rate_limit although a window
\* count in the store is at its threshold, and another passed
\* check_concurrent_requests although the stored counter is at the limit
C11_Witness ==
    \E r, q \in Reqs :
        /\ pc[r] = "checked" /\ loc[r].allowed = "yes"
        /\ FullWindows # {}
        /\ pc[q] = "admitted"
        /\ ConcurrentCount(UserOf(q)) >= plan.concurrent_requests

(***************************************************************************)
(* RateLimitMiddleware.dispatch: rate check, concurrency check, acquire,   *)
(* the downstream handler, increment_usage, the status headers, and the    *)
(* release in `finally`.  loc[r].phase tells the calls of the service      *)
(* apart; loc[r].outcome is what call_next did.  One request is followed   *)
(* through dispatch; the store fails and keys expire around it.            *)
(***************************************************************************)
\* call_next returns a response with a status code of one of three classes,
\* or raises
HandlerOutcomes == {"2xx", "4xx", "5xx", "raise"}

SetLocal(r, label, phase) ==
    /\ SetPc(r, label)
    /\ loc' = [loc EXCEPT ![r].phase = phase]

\* `is_allowed, rate_info = await ...check_rate_limit(user, plan)`
RateCheck(r, i) == loc[r].phase = "rate" /\ CheckRead(r, i)

\* `if not is_allowed: return JSONResponse(429)`
RateDecision(r) ==
    /\ pc[r] = "checked" /\ loc[r].phase = "rate"
    /\ IF loc[r].allowed = "no"
       THEN SetLocal(r, "rejected", "done")
       ELSE SetLocal(r, "idle", "concurrent")
    /\ UNCHANGED <<backend, store, now, faults, crashes, expired, plan, ledger, hist, running>>

\* `if not await ...check_concurrent_requests(user.id, plan): return 429`
ConcurrentCheck(r) == loc[r].phase = "concurrent" /\ CheckConcurrent(r)

\* A dispatch that calls increment_usage whatever the handler's outcome
Handler_usage_always(r) ==
    /\ pc[r] = "held" /\ loc[r].phase = "concurrent"
    /\ \E o \in HandlerOutcomes :
         /\ SetPc(r, "idle")
         /\ loc' = [loc EXCEPT ![r].outcome = o, ![r].phase = "usage"]
    /\ UNCHANGED <<backend, store, now, faults, crashes, expired, plan, ledger, hist, running>>

\* A dispatch whose except block re-raises without increment_usage
Handler_raise_unbilled(r) ==
    /\ pc[r] = "held" /\ loc[r].phase = "concurrent"
    /\ \E o \in HandlerOutcomes :
         /\ SetPc(r, CASE o = "2xx" -> "idle" [] o = "raise" -> "held"
                          [] OTHER -> "status")
         /\ loc' = [loc EXCEPT ![r].outcome = o,
                               ![r].phase = CASE o = "2xx" -> "usage"
                                              [] o = "raise" -> "finally"
                                              [] OTHER -> "status"]
    /\ UNCHANGED <<backend, store, now, faults, crashes, expired, plan, ledger, hist, running>>

\* `response = await call_next(request)` and the branch on its outcome
Handler(r) ==
    /\ pc[r] = "held" /\ loc[r].phase = "concurrent"
    /\ \E o \in HandlerOutcomes :
         /\ SetPc(r, IF o \in {"2xx", "raise"} THEN "idle" ELSE "status")
         /\ loc' = [loc EXCEPT ![r].outcome = o,
                               ![r].phase = IF o \in {"2xx", "raise"}
                                            THEN "usage" ELSE "status"]
    /\ UNCHANGED <<backend, store, now, faults, crashes, expired, plan, ledger, hist, running>>

\* `await ...increment_usage(user.id)` in the try block after a 2xx and in
\* the except block
Usage(r, i) ==
    /\ loc[r].phase = "usage"
    /\ (UsageIncr(r, i) \/ UsageExpire(r, i))

\* After increment_usage: on to the headers, or `raise e`
AfterUsage(r) ==
    /\ pc[r] = "inc_done" /\ loc[r].phase = "usage"
    /\ IF loc[r].outcome = "raise"
       THEN SetLocal(r, "held", "finally")
       ELSE SetLocal(r, "status", "status")
    /\ UNCHANGED <<backend, store, now, faults, crashes, expired, plan, ledger, hist, running>>

\* `current_status = await ...get_user_rate_limit_status(user, plan)`: five
\* reads, nothing written; then `return response`
StatusHeaders(r) ==
    /\ pc[r] = "status"
    /\ \E ok \in Outcomes : Fault(ok)
    /\ SetLocal(r, "held", "finally")
    /\ UNCHANGED <<store, now, crashes, expired, plan, ledger, hist, running>>

\* `finally: await ...release_concurrent_slot(user.id, request_id)`
FinallyRelease(r) ==
    /\ pc[r] = "held" /\ loc[r].phase = "finally"
    /\ ReleaseExists(r)

InitDispatch ==
    /\ store = [k \in SlotKeys \cup WindowKeys \cup {queue_key(0)} |-> Missing]
    /\ now = 0
    /\ pc = [r \in {1} |-> "idle"]
    /\ loc = [r \in {1} |-> [NoLocal EXCEPT !.phase = "rate"]]
    /\ backend = "flaky"
    /\ faults = 0
    /\ crashes = 0
    /\ expired = FALSE
    /\ running = TRUE
    /\ ledger = NoLedger
    /\ hist = NoHist
    /\ plan \in Plans

NextDispatch ==
    \/ \E r \in Reqs, i \in 1 .. 4 : RateCheck(r, i)
    \/ \E r \in Reqs : RateDecision(r)
    \/ \E r \in Reqs : ConcurrentCheck(r)
    \/ \E r \in Reqs : AcquireIncr(r)
    \/ \E r \in Reqs : AcquireExpire(r)
    \/ \E r \in Reqs : AcquireSet(r)
    \/ \E r \in Reqs : Handler(r)
    \/ \E r \in Reqs, i \in 1 .. 4 : Usage(r, i)
    \/ \E r \in Reqs : AfterUsage(r)
    \/ \E r \in Reqs : StatusHeaders(r)
    \/ \E r \in Reqs : FinallyRelease(r)
    \/ \E r \in Reqs : ReleaseGet(r)
    \/ \E r \in Reqs : ReleaseWrite(r)
    \/ \E r \in Reqs : ReleaseDelete(r)
    \/ \E k \in Keys : Lapse(k)

SpecDispatch == InitDispatch /\ [][NextDispatch]_vars

\* Two requests of one user in dispatch at the same time, on a plan that
\* allows two concurrent requests and one request per minute; the store
\* answers every command and no key expires
InitRace ==
    /\ store = [k \in SlotKeys \cup WindowKeys \cup {queue_key(0)} |-> Missing]
    /\ now = 0
    /\ pc = [r \in 1 .. NumReqs |-> "idle"]
    /\ loc = [r \in 1 .. NumReqs |-> [NoLocal EXCEPT !.phase = "rate"]]
    /\ backend = "up"
    /\ faults = 0
    /\ crashes = 0
    /\ expired = FALSE
    /\ running = TRUE
    /\ ledger = NoLedger
    /\ hist = NoHist
    /\ plan = [requests_per_month |-> 100, concurrent_requests |-> 2]

NextRace ==
    \/ \E r \in Reqs, i \in 1 .. 4 : RateCheck(r, i)
    \/ \E r \in Reqs : RateDecision(r)
    \/ \E r \in Reqs : ConcurrentCheck(r)
    \/ \E r \in Reqs : AcquireIncr(r)
    \/ \E r \in Reqs : AcquireExpire(r)
    \/ \E r \in Reqs : AcquireSet(r)
    \/ \E r \in Reqs : Handler(r)
    \/ \E r \in Reqs, i \in 1 .. 4 : Usage(r, i)
    \/ \E r \in Reqs : AfterUsage(r)
    \/ \E r \in Reqs : StatusHeaders(r)
    \/ \E r \in Reqs : FinallyRelease(r)
    \/ \E r \in Reqs : ReleaseGet(r)
    \/ \E r \in Reqs : ReleaseWrite(r)
    \/ \E r \in Reqs : ReleaseDelete(r)

SpecRace == InitRace /\ [][NextRace]_vars

\* C36: the minute counter of the user never exceeds per_minute.
C36_MinuteWithinLimit ==
    Count("minute", now) <= _get_plan_limits(plan).per_minute

\* The request went through the handler and its dispatch has returned or
\* re-raised
Finished(r) == loc[r].outcome # "none" /\ pc[r] = "released"

\* C12: a request that acquired a slot has release_concurrent_slot called
\* when its handler finishes with a 2xx, a non-2xx or an exception, and once
\* that release has returned its slot marker does not exist
C12_SlotReleased ==
    \A r \in Reqs :
        /\ (loc[r].outcome # "none" /\ loc[r].phase \in {"done", "finally"}) =>
               pc[r] \in {"held", "rel_get", "rel_write", "rel_delete", "released"}
        /\ Finished(r) => ~Present(store, slot_key(UserOf(r), r))

\* C13: every admitted request that completed with a response has one event
\* of its user and status in a usage event queue (the store never failed and
\* no key expired, so nothing was lost on the way)
C13_EventQueued ==
    \A r \in Reqs :
        (Finished(r) /\ loc[r].outcome # "raise" /\ faults = 0 /\ ~expired) =>
            \E e \in Queued(store) :
                e.user = UserOf(r) /\ e.status = loc[r].outcome

\* The window counters that exist, and the requests whose handler ended with
\* one of the given outcomes
Counted == {k \in Keys : k[1] = "rate_limit" /\ Present(store, k)}
EndedWith(outcomes) == {r \in Reqs : loc[r].outcome \in outcomes}

\* C14 as stated: a window counter is incremented only after a request
\* completed with a 2xx status
C14_CountedOnlyAfter2xx == Counted # {} => EndedWith({"2xx"}) # {}

\* C14: a window counter is incremented only after a request completed with
\* a 2xx status or ended with an exception; a request that ended with a
\* non-2xx response leaves the four window counters unchanged
C14_CountedOnlyAfter2xxOrRaise ==
    Counted # {} => EndedWith({"2xx", "raise"}) # {}

C14_Witness ==
    \E r \in Reqs :
        Finished(r) /\ loc[r].outcome \in {"4xx", "5xx"} /\ Counted = {}

\* The four window counters of the request's user each stand at n
CountersAt(r, n) ==
    \A i \in 1 .. 4 :
        /\ Present(store, KeyAt(r, i, now))
        /\ store[KeyAt(r, i, now)].val = n

\* The requests whose dispatch reached `finally` with every store command
\* answered and no key expired
Settled ==
    {r \in Reqs : loc[r].phase = "finally" /\ faults = 0 /\ ~expired}

\* C15 as stated: when the handler raised or returned a 5xx response, the
\* four window counters are each incremented by one
C15_FailureCounted ==
    \A r \in Settled : loc[r].outcome \in {"raise", "5xx"} => CountersAt(r, 1)

\* C15: when the handler raised, the four window counters are each
\* incremented by one; when it returned a 5xx response, none is incremented
C15_RaiseCounted ==
    \A r \in Settled :
        /\ loc[r].outcome = "raise" => CountersAt(r, 1)
        /\ loc[r].outcome = "5xx" => Counted = {}

C15_Witness ==
    \E r \in Settled :
        loc[r].outcome = "raise" /\ pc[r] = "released" /\ CountersAt(r, 1)

(***************************************************************************)
(* UsageTrackingService: track_api_request queues one event per call and   *)
(* bumps the real-time counters; persist_usage_data drains the queue of    *)
(* the previous hour and folds its 2xx events into the durable ledger      *)
(***************************************************************************)
\* The clock of this part moves in half hours
HalfHour == 30
HourOf(t) == WindowOf("hour", t)

\* json.dumps(request_log): what the reconciler will be able to read of it
Event(u, status, form) == [user |-> u, status |-> status, form |-> form]
Statuses == {"2xx", "5xx"}

\* _update_realtime_counters: the three keys, their windows and lifetimes
TrackKinds == <<"usage_daily", "usage_monthly", "usage_hourly">>
TrackWindows == <<"day", "month", "hour">>
TrackSeconds == <<DaySeconds * 2, DaySeconds * 35, DaySeconds * 7>>
usage_key(j, u, t) == <<TrackKinds[j], u, "", WindowOf(TrackWindows[j], t)>>

\* The process that calls track_api_request, one call after the other
Tracker == 3
\* The reconciler instances: the hourly task and the admin's persist call
Scheduled == 1
Manual == 2
Recons == DOMAIN pc \cap {Scheduled, Manual}

QueueHours == -1 .. MaxHours
ReconKeys ==
    {queue_key(h) : h \in QueueHours}
      \cup {usage_key(j, u, t * HalfHour) :
              j \in 1 .. 3, u \in LedgerUsers, t \in 0 .. 2 * MaxHours}

\* `await self.redis.lpush(request_key, json.dumps(request_log))`
TrackPush(p, u, status) ==
    /\ pc[p] = "t_idle"
    /\ hist.calls < MaxEvents
    /\ \E ok \in Outcomes :
         /\ Fault(ok)
         /\ store' = lpush(store, queue_key(HourOf(now)),
                           Event(u, status, "ok"), ok)
         /\ hist' = [hist EXCEPT
                       !.calls = @ + 1,
                       !.pushed[u] = IF ok /\ status = "2xx" THEN @ + 1 ELSE @,
                       !.log = IF ok
                               THEN Append(@, <<HourOf(now),
                                                Event(u, status, "ok")>>)
                               ELSE @]
    /\ SetPc(p, "t_expire")
    /\ loc' = [loc EXCEPT ![p].win = now, ![p].user = u]
    /\ UNCHANGED <<now, crashes, expired, plan, ledger, running>>

\* `await self.redis.expire(request_key, 7200)`
TrackExpire(p) ==
    /\ pc[p] = "t_expire"
    /\ \E ok \in Outcomes :
         /\ Fault(ok)
         /\ store' = expire(store, queue_key(HourOf(loc[p].win)),
                            QueueSeconds, ok)
    /\ SetPc(p, "t_counters")
    /\ UNCHANGED <<now, loc, crashes, expired, plan, ledger, hist, running>>

\* `await self._update_realtime_counters(user_id, timestamp)`: INCR and
\* EXPIRE of the day key, the month key and the hour key.  No other code
\* reads or writes these keys between the six commands, so they are one step
RECURSIVE Bumped(_, _, _, _, _)
Bumped(s, j, u, t, ok) ==
    IF j = 0 THEN s
    ELSE LET before == Bumped(s, j - 1, u, t, ok)
         IN expire(incr(before, usage_key(j, u, t), ok),
                   usage_key(j, u, t), TrackSeconds[j], ok)

TrackCounters(p) ==
    /\ pc[p] = "t_counters"
    /\ \E ok \in Outcomes :
         /\ Fault(ok)
         /\ store' = Bumped(store, 3, loc[p].user, loc[p].win, ok)
    /\ SetPc(p, "t_idle")
    /\ UNCHANGED <<now, loc, crashes, expired, plan, ledger, hist, running>>

\* persist_usage_data is entered: by the hourly task once in an hour, in its
\* first half (minute 5), by the admin at any time.
\* `prev_hour = now - timedelta(hours=1)`
StartRun(i) ==
    /\ pc[i] \in {"r_idle", "r_done", "r_failed", "r_died"}
    /\ i = Scheduled =>
         now % MinuteSeconds < HalfHour /\ loc[i].win # HourOf(now) - 1
    /\ SetPc(i, "r_drain")
    /\ loc' = [loc EXCEPT ![i] = [NoLocal EXCEPT
                                     !.win = HourOf(now - Ticks(HourSeconds)),
                                     !.hour = now - Ticks(HourSeconds)]]
    /\ UNCHANGED <<backend, store, now, faults, crashes, expired, plan, ledger, hist, running>>

\* `request_data = await self.redis.rpop(request_key)`, `if not
\* request_data: break`, and `if not requests_json: return`
DrainOne(i) ==
    /\ pc[i] = "r_drain"
    /\ \E ok \in Outcomes :
         /\ Fault(ok)
         /\ store' = rpop(store, queue_key(loc[i].win), ok)
         /\ LET got == rpop_ret(store, queue_key(loc[i].win), ok)
            IN IF got # <<>>
               THEN /\ loc' = [loc EXCEPT ![i].batch = Append(@, got[1])]
                    /\ UNCHANGED pc
               ELSE /\ SetPc(i, IF loc[i].batch = <<>> THEN "r_done"
                                                     ELSE "r_group")
                    /\ UNCHANGED loc
    /\ UNCHANGED <<now, crashes, expired, plan, ledger, hist, running>>

\* The grouping loop: json.loads raises JSONDecodeError on text that is not
\* JSON, which is caught (`continue`); request_data["user_id"] raises
\* KeyError on JSON without the field, which is not caught
Raises(batch) == \E n \in 1 .. Len(batch) : batch[n].form = "nouser"
Parsed(batch) == SelectSeq(batch, LAMBDA e : e.form = "ok")

\* user_requests.items(): the users in the order of their first event
RECURSIVE FirstSeen(_)
FirstSeen(events) ==
    IF events = <<>> THEN <<>>
    ELSE LET rest == FirstSeen(SubSeq(events, 1, Len(events) - 1))
             u == events[Len(events)].user
         IN IF \E n \in 1 .. Len(rest) : rest[n] = u
            THEN rest ELSE Append(rest, u)

\* A grouping that keeps the events of the first user only
UserRequests_first(batch, u) ==
    SelectSeq(Parsed(batch), LAMBDA e : e.user = u /\ e.user = batch[1].user)

UserRequests(batch, u) == SelectSeq(Parsed(batch), LAMBDA e : e.user = u)

\* A count of every event whatever its status code
Successful_any(requests) == Len(requests)

\* len([r for r in requests if 200 <= r.get("status_code", 0) < 300])
Successful(requests) == Len(SelectSeq(requests, LAMBDA e : e.status = "2xx"))

Group(i) ==
    /\ pc[i] = "r_group"
    /\ IF Raises(loc[i].batch)
       THEN SetPc(i, "r_failed") /\ UNCHANGED loc
       ELSE LET todo == FirstSeen(Parsed(loc[i].batch))
            IN /\ SetPc(i, IF todo = <<>> THEN "r_done" ELSE "r_update")
               /\ loc' = [loc EXCEPT ![i].todo = todo]
    /\ UNCHANGED <<backend, store, now, faults, crashes, expired, plan, ledger, hist, running>>

\* The calendar month of 30 days a minute lies in
MonthMinutes == 30 * Ticks(DaySeconds)
MonthStart(t) == WindowOf("month", t) * MonthMinutes

\* An update that stores the batch's count in place of the sum
_update_database_usage_overwrite(l, u, n, hour, t) ==
    LET found == {c \in l.usage_counters :
                    /\ c.user_id = u
                    /\ c.period_start <= hour /\ c.period_end > hour}
    IN IF found # {}
       THEN {[l EXCEPT !.usage_counters =
                (@ \ {c}) \cup {[c EXCEPT !.requests_count = n]}] : c \in found}
       ELSE {[l EXCEPT !.usage_counters =
                @ \cup {UsageCounter(Cardinality(@) + 1, u, MonthStart(hour),
                                     MonthStart(hour) + MonthMinutes, n)}]}

\* _update_database_usage: the ledgers the call may leave.  The user's
\* active subscription gives the period, else the calendar month of the
\* hour; the row whose period holds the hour is raised by n, and when there
\* is none a row of that period is added.  `.first()` on a query without
\* ORDER BY may return any of the rows that match.
_update_database_usage(l, u, n, hour, t) ==
    LET subs == {s \in l.subscriptions :
                   s.user_id = u /\ s.current_period_end > t}
        periods ==
            IF subs # {}
            THEN {<<s.current_period_start, s.current_period_end>> : s \in subs}
            ELSE {<<MonthStart(hour), MonthStart(hour) + MonthMinutes>>}
        found == {c \in l.usage_counters :
                    /\ c.user_id = u
                    /\ c.period_start <= hour /\ c.period_end > hour}
    IN IF found # {}
       THEN {[l EXCEPT !.usage_counters =
                (@ \ {c}) \cup {[c EXCEPT !.requests_count = @ + n]}] :
                   c \in found}
       ELSE {[l EXCEPT !.usage_counters =
                @ \cup {UsageCounter(Cardinality(@) + 1, u, p[1], p[2], n)}] :
                   p \in periods}

\* `await self._update_database_usage(user_id, requests, prev_hour)` for the
\* next user: the queries, the increment and the commit, with no await in
\* between
Update(i) ==
    /\ pc[i] = "r_update"
    /\ LET u == Head(loc[i].todo)
       IN ledger' \in _update_database_usage(
              ledger, u, Successful(UserRequests(loc[i].batch, u)),
              loc[i].hour, now)
    /\ loc' = [loc EXCEPT ![i].todo = Tail(@)]
    /\ SetPc(i, IF Tail(loc[i].todo) = <<>> THEN "r_done" ELSE "r_update")
    /\ UNCHANGED <<backend, store, now, faults, crashes, expired, plan, hist, running>>

\* The process dies in the middle of a run
ReconCrash(i) ==
    /\ pc[i] \in {"r_drain", "r_group", "r_update"}
    /\ crashes < MaxCrashes
    /\ crashes' = crashes + 1
    /\ SetPc(i, "r_died")
    /\ UNCHANGED <<backend, store, now, loc, faults, expired, plan, ledger, hist, running>>

\* Half an hour passes: the keys whose time to live is shorter are gone
DecayBy(s, d) ==
    [k \in DOMAIN s |->
       IF s[k].ttl >= 0 /\ s[k].ttl < d THEN Missing
       ELSE IF s[k].ttl >= d THEN [s[k] EXCEPT !.ttl = @ - d]
       ELSE s[k]]

Advance ==
    /\ now + HalfHour <= MaxHours * MinuteSeconds
    /\ now' = now + HalfHour
    /\ store' = DecayBy(store, HalfHour)
    /\ expired' = (expired \/ \E k \in Keys :
                                 store[k].ttl >= 0 /\ store[k].ttl < HalfHour)
    /\ UNCHANGED <<backend, pc, loc, faults, crashes, plan, ledger, hist, running>>

\* The events track_api_request can queue, and the entries something else
\* may have put on a queue: text that is not JSON, or JSON without a user_id
TrackedEvents == {Event(u, st, "ok") : u \in LedgerUsers, st \in Statuses}
ForeignEvents == {Event(0, "2xx", form) : form \in {"garbage", "nouser"}}
QueuesOf(events, most) == UNION {[1 .. n -> events] : n \in 0 .. most}

\* The 2xx events of user u among the entries
TwoHundreds(entries, u) ==
    Cardinality({n \in 1 .. Len(entries) :
                   /\ entries[n].form = "ok"
                   /\ entries[n].user = u
                   /\ entries[n].status = "2xx"})

\* The history of the pushes that left the list q for hour h: LPUSH puts
\* the newest entry first
Recorded(q, h) == [n \in 1 .. Len(q) |-> <<h, q[Len(q) + 1 - n]>>]

\* The list left for the hour that began at minute `born`, as it stands at
\* minute t
QueueAt(q, born, t) ==
    IF q = <<>> THEN Missing
    ELSE [val |-> q, ttl |-> Ticks(QueueSeconds) - (t - born), born |-> born]

\* The hourly task and an admin's persist call in the hour after the one
\* whose queue track_api_request filled, over a store that may fail, in
\* processes that may die, while the queue may expire
InitRecon ==
    /\ now = Ticks(HourSeconds)
    /\ \E q \in QueuesOf(TrackedEvents, MaxEvents - 1) :
         /\ store = [k \in ReconKeys |->
                       IF k = queue_key(0) THEN QueueAt(q, 0, now) ELSE Missing]
         /\ hist = [NoHist EXCEPT
                      !.pushed = [u \in LedgerUsers |-> TwoHundreds(q, u)],
                      !.calls = Len(q), !.log = Recorded(q, 0)]
    /\ pc = [i \in {Scheduled, Manual} |-> "r_idle"]
    /\ loc = [i \in {Scheduled, Manual} |-> [NoLocal EXCEPT !.win = -2]]
    /\ backend = "flaky"
    /\ faults = 0
    /\ crashes = 0
    /\ expired = FALSE
    /\ running = TRUE
    /\ ledger = NoLedger
    /\ plan = FreePlan

NextRecon ==
    \/ \E i \in Recons : StartRun(i)
    \/ \E i \in Recons : DrainOne(i)
    \/ \E i \in Recons : Group(i)
    \/ \E i \in Recons : Update(i)
    \/ \E i \in Recons : ReconCrash(i)
    \/ \E k \in Keys : Lapse(k)

SpecRecon == InitRecon /\ [][NextRecon]_vars

\* One run of the hourly task over a queue that holds tracked and foreign
\* entries; the store answers every command
InitBatch ==
    /\ now = Ticks(HourSeconds)
    /\ \E n \in [LedgerUsers -> 0 .. 1] :
         ledger = [NoLedger EXCEPT !.usage_counters =
                     {UsageCounter(u, u, 0, MonthMinutes, n[u]) :
                        u \in LedgerUsers}]
    /\ \E q \in QueuesOf(TrackedEvents \cup ForeignEvents, MaxEvents) :
         /\ store = [k \in ReconKeys |->
                       IF k = queue_key(0) THEN QueueAt(q, 0, now) ELSE Missing]
         /\ hist = [pushed |-> [u \in LedgerUsers |-> TwoHundreds(q, u)],
                    calls |-> Len(q), log |-> Recorded(q, 0),
                    base |-> [u \in LedgerUsers |-> requests_count(ledger, u)]]
    /\ pc = [i \in {Scheduled} |-> "r_idle"]
    /\ loc = [i \in {Scheduled} |-> [NoLocal EXCEPT !.win = -2]]
    /\ backend = "up"
    /\ faults = 0
    /\ crashes = 0
    /\ expired = FALSE
    /\ running = TRUE
    /\ plan = FreePlan

NextBatch ==
    \/ \E i \in Recons : StartRun(i)
    \/ \E i \in Recons : DrainOne(i)
    \/ \E i \in Recons : Group(i)
    \/ \E i \in Recons : Update(i)

SpecBatch == InitBatch /\ [][NextBatch]_vars

\* The hourly task alone, with track_api_request filling the queues while
\* the hours pass; the store answers every command and no process dies
InitHours ==
    /\ store = [k \in ReconKeys |-> Missing]
    /\ now = 0
    /\ pc = [i \in {Scheduled, Tracker} |->
               IF i = Tracker THEN "t_idle" ELSE "r_idle"]
    /\ loc = [i \in {Scheduled, Tracker} |-> [NoLocal EXCEPT !.win = -2]]
    /\ backend = "up"
    /\ faults = 0
    /\ crashes = 0
    /\ expired = FALSE
    /\ running = TRUE
    /\ ledger = NoLedger
    /\ hist = NoHist
    /\ plan = FreePlan

NextHours ==
    \/ \E u \in LedgerUsers, st \in Statuses : TrackPush(Tracker, u, st)
    \/ TrackExpire(Tracker)
    \/ TrackCounters(Tracker)
    \/ \E i \in Recons : StartRun(i)
    \/ \E i \in Recons : DrainOne(i)
    \/ \E i \in Recons : Group(i)
    \/ \E i \in Recons : Update(i)
    \/ \E k \in Keys : Expire(k)
    \/ Advance

SpecHours == InitHours /\ [][NextHours]_vars

\* The hour turns: every key is an hour older
HourTurns ==
    /\ now = 0
    /\ now' = Ticks(HourSeconds)
    /\ store' = DecayBy(store, Ticks(HourSeconds))
    /\ expired' = (expired \/ \E k \in Keys :
                                 store[k].ttl >= 0
                                   /\ store[k].ttl < Ticks(HourSeconds))
    /\ UNCHANGED <<backend, pc, loc, faults, crashes, plan, ledger, hist, running>>

\* track_api_request fills the queue of an hour, the hour turns and the hourly
\* task drains it; the store answers every command
NextFifo ==
    \/ \E u \in LedgerUsers, st \in Statuses : TrackPush(Tracker, u, st)
    \/ TrackExpire(Tracker)
    \/ TrackCounters(Tracker)
    \/ \E i \in Recons : StartRun(i)
    \/ \E i \in Recons : DrainOne(i)
    \/ \E i \in Recons : Group(i)
    \/ \E i \in Recons : Update(i)
    \/ HourTurns

SpecFifo == InitHours /\ [][NextFifo]_vars

(***************************************************************************)
(* UserService.subscribe_user_to_plan and the admin's reset_user_usage     *)
(***************************************************************************)
\* A row of subscriptions with status "active"; cancelled rows are never
\* read again and are left out
Subscription(u, from, to) ==
    [user_id |-> u, current_period_start |-> from, current_period_end |-> to]
CycleMinutes(cycle) ==
    IF cycle = "yearly" THEN 365 * Ticks(DaySeconds) ELSE 30 * Ticks(DaySeconds)

\* subscribe_user_to_plan: the ledgers the call may leave.  The active
\* subscription that get_user_subscription returns is cancelled, a new one
\* starts now, and the user's usage counter (the first row of the user,
\* whatever its period) is reset to the new period, or created
subscribe_user_to_plan(l, u, cycle, t) ==
    LET existing == {x \in l.subscriptions :
                       x.user_id = u /\ x.current_period_end > t}
        kept == IF existing = {} THEN {l.subscriptions}
                ELSE {l.subscriptions \ {x} : x \in existing}
        new == Subscription(u, t, t + CycleMinutes(cycle))
        mine == {c \in l.usage_counters : c.user_id = u}
        counters ==
            IF mine = {}
            THEN {l.usage_counters \cup
                    {UsageCounter(Cardinality(l.usage_counters) + 1, u,
                                  t, t + CycleMinutes(cycle), 0)}}
            ELSE {(l.usage_counters \ {c}) \cup
                    {UsageCounter(c.id, u, t, t + CycleMinutes(cycle), 0)} :
                       c \in mine}
    IN {[usage_counters |-> cs, subscriptions |-> k \cup {new}] :
           cs \in counters, k \in kept}

Subscribe(u, cycle) ==
    /\ ledger' \in subscribe_user_to_plan(ledger, u, cycle, now)
    /\ UNCHANGED <<backend, store, now, pc, loc, faults, crashes, expired, plan, hist, running>>

\* The admin who calls reset_user_usage
Admin == 4
user_subscription_key(u) == <<"user_subscription", u, "", 0>>
user_usage_key(u) == <<"user_usage", u, "", 0>>
CacheKeys ==
    {user_subscription_key(u) : u \in LedgerUsers}
      \cup {user_usage_key(u) : u \in LedgerUsers}

\* reset_user_usage up to its first await: the first row of the user whose
\* period has not ended is set to 0 and committed
reset_count(l, u, t) ==
    LET open == {c \in l.usage_counters : c.user_id = u /\ c.period_end > t}
    IN IF open = {} THEN {l}
       ELSE {[l EXCEPT !.usage_counters =
                (@ \ {c}) \cup {[c EXCEPT !.requests_count = 0]}] : c \in open}

ResetCount(a, u) ==
    /\ pc[a] = "a_idle"
    /\ ledger' \in reset_count(ledger, u, now)
    /\ SetPc(a, "a_del1")
    /\ loc' = [loc EXCEPT ![a].user = u, ![a].win = now]
    /\ UNCHANGED <<backend, store, now, faults, crashes, expired, plan, hist, running>>

\* keys_to_clear without the pattern "rate_limit:{user_id}:*", which the
\* loop skips, then invalidate_user_cache's keys without the same pattern
ResetKeys(u, t) ==
    <<usage_key(1, u, t), usage_key(2, u, t),
      user_subscription_key(u), user_usage_key(u)>>

\* `await self.redis.delete(key)`, four times
ResetDelete(a, j) ==
    /\ pc[a] = <<"a_del1", "a_del2", "a_del3", "a_del4">>[j]
    /\ \E ok \in Outcomes :
         /\ Fault(ok)
         /\ store' = delete(store, ResetKeys(loc[a].user, loc[a].win)[j], ok)
    /\ SetPc(a, <<"a_del2", "a_del3", "a_del4", "a_done">>[j])
    /\ UNCHANGED <<now, loc, crashes, expired, plan, ledger, hist, running>>

\* The admin's next call
ResetAgain(a) ==
    /\ pc[a] = "a_done"
    /\ SetPc(a, "a_idle")
    /\ UNCHANGED <<backend, store, now, loc, faults, crashes, expired, plan, ledger, hist, running>>

\* The ledgers the hour may begin with: no rows, or each user's row of the
\* calendar month with a count of 0 or 1
StartLedgers ==
    {NoLedger} \cup
      {[NoLedger EXCEPT !.usage_counters =
          {UsageCounter(u, u, 0, MonthMinutes, n[u]) : u \in LedgerUsers}] :
            n \in [LedgerUsers -> 0 .. 1]}

\* The hourly task over the queue of the hour before, while users subscribe
\* and the admin resets; the store answers every command
InitLedgerOf(most) ==
    /\ now = Ticks(HourSeconds)
    /\ ledger \in StartLedgers
    /\ \E q \in QueuesOf(TrackedEvents, most) :
         /\ store = [k \in ReconKeys \cup CacheKeys |->
                       IF k = queue_key(0) THEN QueueAt(q, 0, now) ELSE Missing]
         /\ hist = [pushed |-> [u \in LedgerUsers |-> TwoHundreds(q, u)],
                    calls |-> Len(q), log |-> Recorded(q, 0),
                    base |-> [u \in LedgerUsers |-> requests_count(ledger, u)]]
    /\ pc = [i \in {Scheduled, Admin} |->
               IF i = Admin THEN "a_idle" ELSE "r_idle"]
    /\ loc = [i \in {Scheduled, Admin} |-> [NoLocal EXCEPT !.win = -2]]
    /\ backend = "up"
    /\ faults = 0
    /\ crashes = 0
    /\ expired = FALSE
    /\ running = TRUE
    /\ plan = FreePlan

NextLedger ==
    \/ \E i \in {Scheduled} : StartRun(i)
    \/ \E i \in {Scheduled} : DrainOne(i)
    \/ \E i \in {Scheduled} : Group(i)
    \/ \E i \in {Scheduled} : Update(i)
    \/ \E u \in LedgerUsers, cycle \in {"monthly", "yearly"} : Subscribe(u, cycle)
    \/ \E u \in LedgerUsers : ResetCount(Admin, u)
    \/ \E j \in 1 .. 4 : ResetDelete(Admin, j)
    \/ ResetAgain(Admin)

InitLedger == InitLedgerOf(MaxEvents - 1)
SpecLedger == InitLedger /\ [][NextLedger]_vars

\* The same hour with a shorter queue
InitCounts == InitLedgerOf(MaxEvents - 2)
SpecCounts == InitCounts /\ [][NextLedger]_vars

\* C22: a user never has two usage counter rows whose periods overlap.
C22_NoOverlap ==
    \A c, d \in ledger.usage_counters :
        (c.user_id = d.user_id /\ c.id # d.id) =>
            \/ c.period_end <= d.period_start
            \/ d.period_end <= c.period_start

\* C23: the row a run increments or creates has a period that contains the
\* hour the run drained.
C23_PeriodHoldsHour ==
    [][\A i \in {Scheduled} :
         (pc[i] = "r_update" /\ loc'[i] # loc[i]) =>
             \A c \in ledger'.usage_counters \ ledger.usage_counters :
                 c.period_start <= loc[i].hour /\ loc[i].hour < c.period_end]_vars

ResetWindowKeys ==
    {window_key(u, k, WindowOf(k, Ticks(HourSeconds))) :
        u \in LedgerUsers, k \in KindSet}
InitReset ==
    /\ now = Ticks(HourSeconds)
    /\ ledger \in StartLedgers
    /\ \E held \in SUBSET ResetWindowKeys :
         store = [k \in ReconKeys \cup CacheKeys \cup ResetWindowKeys |->
                    IF k \in held
                    THEN [val |-> 1, ttl |-> window_ttl(k[3], now), born |-> now]
                    ELSE Missing]
    /\ hist = NoHist
    /\ pc = [i \in {Admin} |-> "a_idle"]
    /\ loc = [i \in {Admin} |-> NoLocal]
    /\ backend = "up"
    /\ faults = 0
    /\ crashes = 0
    /\ expired = FALSE
    /\ running = TRUE
    /\ plan = FreePlan

NextReset ==
    \/ \E u \in LedgerUsers : ResetCount(Admin, u)
    \/ \E j \in 1 .. 4 : ResetDelete(Admin, j)
    \/ ResetAgain(Admin)

SpecReset == InitReset /\ [][NextReset]_vars

\* C25: once reset_user_usage has returned, the user's row of the current
\* period holds 0 and none of the user's four window counters is present.
C25_ResetClears ==
    pc[Admin] = "a_done" =>
        /\ \A c \in ledger.usage_counters :
             (c.user_id = loc[Admin].user /\ c.period_end > now) =>
                 c.requests_count = 0
        /\ \A k \in KindSet :
             get(store, window_key(loc[Admin].user, k, WindowOf(k, now)),
                 TRUE) = None

\* The instances in the middle of a run, and the 2xx events of a user that
\* still wait on a queue
Running == {i \in Recons : pc[i] \in {"r_drain", "r_group", "r_update"}}
Waiting(u) ==
    LET OnQueue(k) ==
            IF Present(store, k) THEN TwoHundreds(store[k].val, u) ELSE 0
        RECURSIVE Total(_)
        Total(ks) == IF ks = {} THEN 0
                     ELSE LET k == CHOOSE x \in ks : TRUE
                          IN OnQueue(k) + Total(ks \ {k})
    IN Total(QueueKeysOf(store))

\* C16: whatever the runs, their interleaving, the store failures and the
\* crashes, the ledger of a user never holds more than the 2xx events
\* recorded for that user
C16_AtMostOnce ==
    \A u \in LedgerUsers : requests_count(ledger, u) <= hist.pushed[u]

C16_Witness ==
    /\ crashes > 0
    /\ Running = {}
    /\ \A u \in LedgerUsers : Waiting(u) = 0
    /\ \E u \in LedgerUsers :
         /\ 0 < requests_count(ledger, u)
         /\ requests_count(ledger, u) < hist.pushed[u]

Conserved ==
    (Running = {} /\ crashes = 0 /\ ~expired) =>
        \A u \in LedgerUsers :
            requests_count(ledger, u) + Waiting(u) = hist.pushed[u]

\* C18: two instances that run at the same time never drain the same hour
\* bucket, and once both have finished every user's ledger has grown by the
\* 2xx events the two drained
C18_DisjointBuckets ==
    /\ \A i, j \in Running : i # j => loc[i].win # loc[j].win
    /\ Conserved

\* C19: a run that drained a malformed entry still completes, and counts
\* every well-formed event it drained
C19_MalformedSkipped ==
    \A i \in Recons :
        (/\ pc[i] \in {"r_done", "r_failed"}
         /\ \E n \in 1 .. Len(loc[i].batch) : loc[i].batch[n].form # "ok") =>
            /\ pc[i] = "r_done"
            /\ \A u \in LedgerUsers :
                   requests_count(ledger, u) =
                    hist.base[u] + TwoHundreds(loc[i].batch, u)

\* C20: when the hourly task has completed its run of the current hour, no
\* 2xx event waits on the queue of an earlier hour: a run that came late
\* or failed left its bucket to the run after it
C20_LateBucketFolded ==
    (pc[Scheduled] = "r_done" /\ loc[Scheduled].win = HourOf(now) - 1) =>
        \A k \in QueueKeysOf(store), u \in LedgerUsers :
            (k[4] < HourOf(now) /\ Present(store, k)) =>
                TwoHundreds(store[k].val, u) = 0

\* The events recorded for hour h, oldest first, and what a list will give
\* to the RPOPs to come
Logged(h) ==
    LET pushes == SelectSeq(hist.log, LAMBDA x : x[1] = h)
    IN [n \in 1 .. Len(pushes) |-> pushes[n][2]]
Pending(k) ==
    IF Present(store, k)
    THEN [n \in 1 .. Len(store[k].val) |->
            store[k].val[Len(store[k].val) + 1 - n]]
    ELSE <<>>

\* C21: what a run has drained, followed by what the list still gives, is
\* the sequence of the hour's events in the order in which they were
\* recorded; the drain loop has ended only on an empty list
C21_Fifo ==
    \A i \in Recons :
        (pc[i] \in {"r_drain", "r_group", "r_update", "r_done"} /\ ~expired) =>
            /\ Logged(loc[i].win) =
                   loc[i].batch \o Pending(queue_key(loc[i].win))
            /\ pc[i] # "r_drain" => Pending(queue_key(loc[i].win)) = <<>>

C21_Witness ==
    \E i \in Recons :
        /\ pc[i] = "r_done"
        /\ Len(loc[i].batch) = 3
        /\ loc[i].batch[1] # loc[i].batch[2]
        /\ loc[i].batch[2] # loc[i].batch[3]
        /\ loc[i].batch = Logged(loc[i].win)

(***************************************************************************)
(* BackgroundTasks: start, stop and the three periodic loops               *)
(***************************************************************************)
MaxCycles == 2

_usage_persistence_task == 5
_rate_limit_cleanup_task == 6
_cache_cleanup_task == 7
Loops == {_usage_persistence_task, _rate_limit_cleanup_task, _cache_cleanup_task}

\* asyncio.create_task: the task that the g-th call of start() creates for a
\* loop, and the loop a task runs
MaxStarts == 2
Task(l, g) == l + 3 * (g - 1)
LoopOf(t) == _usage_persistence_task + ((t - _usage_persistence_task) % 3)
Tasks == {Task(l, g) : l \in Loops, g \in 1 .. MaxStarts}

\* The seconds of `await asyncio.sleep(...)` in a loop's `except Exception`
BackoffOf(l) == IF LoopOf(l) = _usage_persistence_task THEN 300 ELSE 60

\* How a work cycle may end: "ok"; "failed" when the error is caught inside
\* the cycle (persist_usage_data under the inner `except Exception`, a sweep
\* under its own); "raised" when it reaches the loop's `except Exception`
\* (SessionLocal() or db.close() of the persistence loop)
WorkOutcomes(l) ==
    IF LoopOf(l) = _usage_persistence_task THEN {"ok", "failed", "raised"}
    ELSE {"ok", "failed"}

\* start(): returns when already running, else sets the flag and creates
\* the three tasks
Start ==
    /\ ~running
    /\ \E g \in 1 .. MaxStarts :
         LET created == {Task(l, g) : l \in Loops}
         IN  /\ created \subseteq DOMAIN pc
             /\ \A t \in created : pc[t] = "l_none"
             /\ \A t \in DOMAIN pc : t < Task(_usage_persistence_task, g) =>
                                        pc[t] # "l_none"
             /\ pc' = [t \in DOMAIN pc |->
                         IF t \in created THEN "l_top" ELSE pc[t]]
    /\ running' = TRUE
    /\ UNCHANGED <<backend, store, now, loc, faults, crashes, expired, plan, ledger, hist>>

\* stop(): clears the flag and closes the scheduler's store client
Stop ==
    /\ running
    /\ running' = FALSE
    /\ backend' = "down"
    /\ UNCHANGED <<store, now, pc, loc, faults, crashes, expired, plan, ledger, hist>>

\* `while self.running:` and, inside, the start of the sleep
Enter(l) ==
    /\ pc[l] = "l_top"
    /\ IF running
       THEN /\ loc[l].calls < MaxCycles
            /\ SetPc(l, "l_sleep")
            /\ loc' = [loc EXCEPT ![l].calls = @ + 1]
       ELSE SetLocal(l, "l_exit", "top")
    /\ UNCHANGED <<backend, store, now, faults, crashes, expired, plan, ledger, hist, running>>

\* A wake-up that starts the work cycle without looking at the flag
Wake_unchecked(l) ==
    /\ pc[l] = "l_sleep"
    /\ SetPc(l, "l_work")
    /\ UNCHANGED <<backend, store, now, loc, faults, crashes, expired, plan, ledger, hist, running>>

\* The sleep ends: `if not self.running: break`, else the work cycle starts
Wake(l) ==
    /\ pc[l] = "l_sleep"
    /\ IF running
       THEN SetPc(l, "l_work") /\ UNCHANGED loc
       ELSE SetLocal(l, "l_exit", "sleep")
    /\ UNCHANGED <<backend, store, now, faults, crashes, expired, plan, ledger, hist, running>>

\* The work cycle ends: back to the `while`, or into the loop's handler and
\* its `await asyncio.sleep(300)` or `(60)`
Work(l, outcome) ==
    /\ pc[l] = "l_work"
    /\ SetPc(l, IF outcome = "raised" THEN "l_backoff" ELSE "l_top")
    /\ loc' = [loc EXCEPT ![l].outcome = outcome,
                          ![l].current =
                              IF outcome = "raised" THEN BackoffOf(l) ELSE 0]
    /\ UNCHANGED <<backend, store, now, faults, crashes, expired, plan, ledger, hist, running>>

\* A backoff after which the cycle is tried again at once
BackoffEnd_retry(l) ==
    /\ pc[l] = "l_backoff"
    /\ SetPc(l, "l_work")
    /\ UNCHANGED <<backend, store, now, loc, faults, crashes, expired, plan, ledger, hist, running>>

\* The backoff ends: back to the `while`
BackoffEnd(l) ==
    /\ pc[l] = "l_backoff"
    /\ SetPc(l, "l_top")
    /\ UNCHANGED <<backend, store, now, loc, faults, crashes, expired, plan, ledger, hist, running>>

\* The task is cancelled at an await: `except asyncio.CancelledError: break`,
\* or out of the handler when it is sleeping there
Cancel(l) ==
    /\ pc[l] \in {"l_sleep", "l_work", "l_backoff"}
    /\ SetLocal(l, "l_exit", "cancelled")
    /\ UNCHANGED <<backend, store, now, faults, crashes, expired, plan, ledger, hist, running>>

InitLoops ==
    /\ running = FALSE
    /\ pc = [l \in Loops |-> "l_none"]
    /\ loc = [l \in Loops |-> NoLocal]
    /\ store = [k \in {queue_key(0)} |-> Missing]
    /\ now = 0
    /\ backend = "up"
    /\ faults = 0
    /\ crashes = 0
    /\ expired = FALSE
    /\ plan = FreePlan
    /\ ledger = NoLedger
    /\ hist = NoHist

NextLoops ==
    \/ Start
    \/ Stop
    \/ \E l \in Loops : Enter(l)
    \/ \E l \in Loops : Wake(l)
    \/ \E l \in Loops : \E outcome \in WorkOutcomes(l) : Work(l, outcome)
    \/ \E l \in Loops : BackoffEnd(l)
    \/ \E l \in Loops : Cancel(l)

SpecLoops == InitLoops /\ [][NextLoops]_vars

\* The event loop runs every task that can run; nothing obliges anyone to
\* call stop() or to cancel a task
SpecLoopsFair ==
    /\ SpecLoops
    /\ \A l \in Loops : WF_vars(Enter(l))
    /\ \A l \in Loops : WF_vars(Wake(l))
    /\ \A l \in Loops : WF_vars(\E outcome \in WorkOutcomes(l) : Work(l, outcome))
    /\ \A l \in Loops : WF_vars(BackoffEnd(l))

Stopped == ~running /\ \E l \in Loops : pc[l] # "l_none"

\* C26: once stop() has cleared the flag no loop begins a work cycle: a loop
\* enters its work only in a step taken with the flag set.
C26_NoWorkAfterStop ==
    [][\A l \in Loops : (pc[l] # "l_work" /\ pc'[l] = "l_work") => running]_vars
\* Stopped with a cycle of one loop in flight, another loop woke and left
C26_Witness ==
    /\ Stopped
    /\ \E l \in Loops : pc[l] = "l_exit" /\ loc[l].phase = "sleep"
    /\ \E l \in Loops : pc[l] = "l_work"

\* C27: an iteration that ends with an error, a failed persistence run
\* included, is followed by the fixed backoff before the next iteration.
C27_ErrorThenBackoff ==
    [][\A l \in Loops :
         (pc[l] = "l_work" /\ pc'[l] \notin {"l_work", "l_exit"}
            /\ loc'[l].outcome \in {"failed", "raised"}) =>
              pc'[l] = "l_backoff" /\ loc'[l].current = BackoffOf(l)]_vars

MaxCommands == 2

Ops == {"get", "set", "delete", "exists", "incr", "expire", "lpush", "rpop",
        "scan_iter"}

\* `if not self.redis: return ...` and `except Exception: return ...`: None,
\* False, or the empty list (a list of keys is a set here: SCAN has no order)
Sentinel(op) ==
    CASE op \in {"get", "incr", "lpush", "rpop"} -> None
      [] op \in {"set", "delete", "exists", "expire"} -> FALSE
      [] op = "scan_iter" -> {}

\* `keys.append(key)` for every key that matches f"{prefix}:*"
scan_iter(s, prefix, ok) ==
    IF ok THEN {k \in DOMAIN s : k[1] = prefix /\ Present(s, k)} ELSE {}

\* The store after the command
Effect(op, s, k, ok) ==
    CASE op = "set" -> set(s, k, 1, MinuteSeconds, ok)
      [] op = "delete" -> delete(s, k, ok)
      [] op = "incr" -> incr(s, k, ok)
      [] op = "expire" -> expire(s, k, MinuteSeconds, ok)
      [] op = "lpush" -> lpush(s, k, "e", ok)
      [] op = "rpop" -> rpop(s, k, ok)
      [] OTHER -> s

\* What the wrapper hands to its caller when the command went through
Answer(op, s, k) ==
    CASE op = "get" -> get(s, k, TRUE)
      [] op \in {"set", "delete", "expire"} -> TRUE
      [] op = "exists" -> exists(s, k, TRUE)
      [] op = "incr" -> incr_ret(s, k, TRUE)
      [] op = "lpush" -> Len(lpush(s, k, "e", TRUE)[k].val)
      [] op = "rpop" -> IF rpop_ret(s, k, TRUE) = <<>> THEN None
                        ELSE rpop_ret(s, k, TRUE)[1]
      [] op = "scan_iter" -> scan_iter(s, k[1], TRUE)

\* A wrapper without the guard and the handler: the error reaches the caller
Reply_raising(op, s, k, ok) ==
    IF ok THEN [outcome |-> "returned", value |-> Answer(op, s, k)]
    ELSE [outcome |-> "raised", value |-> Sentinel(op)]

\* The wrapper: the command's answer, or the sentinel when self.redis is
\* None or the command raises
Reply(op, s, k, ok) ==
    [outcome |-> "returned",
     value |-> CASE op = "get" -> get(s, k, ok)
                 [] op \in {"set", "delete", "expire"} -> ok
                 [] op = "exists" -> exists(s, k, ok)
                 [] op = "incr" -> incr_ret(s, k, ok)
                 [] op = "lpush" ->
                      IF ok THEN Len(lpush(s, k, "e", ok)[k].val) ELSE None
                 [] op = "rpop" -> IF rpop_ret(s, k, ok) = <<>> THEN None
                                   ELSE rpop_ret(s, k, ok)[1]
                 [] op = "scan_iter" -> scan_iter(s, k[1], ok)]

\* One call of a wrapper by the engine: list commands on the hour's queue,
\* the others on a window counter
ClientCall(r, op) ==
    /\ pc[r] = "idle"
    /\ loc[r].calls < MaxCommands
    /\ \E ok \in Outcomes :
         LET k == IF op \in {"lpush", "rpop"} THEN queue_key(0)
                  ELSE window_key(1, "minute", 0)
             reply == Reply(op, store, k, ok)
         IN  /\ Fault(ok)
             /\ store' = Effect(op, store, k, ok)
             /\ loc' = [loc EXCEPT ![r].phase = op,
                                   ![r].again = ~ok,
                                   ![r].outcome = reply.outcome,
                                   ![r].reply = reply.value,
                                   ![r].calls = @ + 1]
    /\ SetPc(r, "called")
    /\ UNCHANGED <<now, crashes, expired, plan, ledger, hist, running>>

\* The caller goes on to its next command
ClientNext(r) ==
    /\ pc[r] = "called"
    /\ SetPc(r, "idle")
    /\ UNCHANGED <<backend, store, now, loc, faults, crashes, expired, plan, ledger, hist, running>>

\* A store holding or not a window counter and the hour's queue, reachable,
\* not connected (self.redis is None) or failing a command
InitClient ==
    /\ now = 0
    /\ \E n \in 0 .. 1, q \in {<<>>, <<"e">>} :
         store = [k \in {window_key(1, "minute", 0), queue_key(0)} |->
                    IF k = queue_key(0) THEN QueueAt(q, 0, 0)
                    ELSE IF n = 0 THEN Missing
                    ELSE [val |-> n, ttl |-> NoExpiry, born |-> 0]]
    /\ pc = [r \in {1} |-> "idle"]
    /\ loc = [r \in {1} |-> NoLocal]
    /\ backend \in {"up", "down", "flaky"}
    /\ faults = 0
    /\ crashes = 0
    /\ expired = FALSE
    /\ running = TRUE
    /\ plan = FreePlan
    /\ ledger = NoLedger
    /\ hist = NoHist

NextClient ==
    \/ \E r \in Reqs, op \in Ops : ClientCall(r, op)
    \/ \E r \in Reqs : ClientNext(r)

SpecClient == InitClient /\ [][NextClient]_vars

\* C32: a wrapper whose command failed, the backend unreachable or the
\* command raising, returns its sentinel to the caller and raises nothing;
\* no wrapper ever raises.
C32_SentinelOnFailure ==
    \A r \in Reqs :
        pc[r] = "called" =>
            /\ loc[r].outcome = "returned"
            /\ loc[r].again => loc[r].reply = Sentinel(loc[r].phase)
\* A scan that failed returned the empty list although a key matches
C32_Witness ==
    /\ pc[1] = "called"
    /\ loc[1].phase = "scan_iter"
    /\ loc[1].again
    /\ loc[1].reply = {}
    /\ Present(store, window_key(1, "minute", 0))

(***************************************************************************)
(* datetime: calendar timestamps to the second, their arithmetic and their *)
(* formatting into window keys                                             *)
(***************************************************************************)
Years == 2023 .. 2026
IsLeap(y) == y % 4 = 0 /\ (y % 100 # 0 \/ y % 400 = 0)
DaysIn(y, m) ==
    CASE m \in {4, 6, 9, 11} -> 30
      [] m = 2 -> IF IsLeap(y) THEN 29 ELSE 28
      [] OTHER -> 31

datetime(y, m, d, H, M, S) ==
    [year |-> y, month |-> m, day |-> d, hour |-> H, minute |-> M, second |-> S]

\* The days from 1 January 2023 to the first day of month m of year y
RECURSIVE CountDays(_, _)
CountDays(y, m) ==
    IF m > 1 THEN CountDays(y, m - 1) + DaysIn(y, m - 1)
    ELSE IF y > 2023 THEN CountDays(y - 1, 12) + DaysIn(y - 1, 12)
    ELSE 0
DaysBefore == [y \in 2023 .. 2027, m \in 1 .. 12 |-> CountDays(y, m)]

\* The seconds from 1 January 2023 00:00:00 to the timestamp, and back
Seconds(ts) ==
    (DaysBefore[ts.year, ts.month] + ts.day - 1) * DaySeconds
      + ts.hour * HourSeconds + ts.minute * MinuteSeconds + ts.second
FromSeconds(n) ==
    LET days == n \div DaySeconds
        rest == n % DaySeconds
        y == CHOOSE y \in Years :
               DaysBefore[y, 1] <= days /\ days < DaysBefore[y + 1, 1]
        m == CHOOSE m \in 1 .. 12 :
               /\ DaysBefore[y, m] <= days
               /\ days < DaysBefore[y, m] + DaysIn(y, m)
    IN  datetime(y, m, days - DaysBefore[y, m] + 1, rest \div HourSeconds,
                 (rest % HourSeconds) \div MinuteSeconds, rest % MinuteSeconds)

\* `now + timedelta(seconds=n)`
Plus(ts, n) == FromSeconds(Seconds(ts) + n)

\* A format that leaves the year out of the month key
strftime_no_year(kind, ts) ==
    CASE kind = "minute" -> <<ts.year, ts.month, ts.day, ts.hour, ts.minute>>
      [] kind = "hour" -> <<ts.year, ts.month, ts.day, ts.hour>>
      [] kind = "day" -> <<ts.year, ts.month, ts.day>>
      [] kind = "month" -> <<ts.month>>

\* strftime with '%Y%m%d%H%M', '%Y%m%d%H', '%Y%m%d' and '%Y%m': the string
\* as the sequence of its fixed-width fields
strftime(kind, ts) ==
    CASE kind = "minute" -> <<ts.year, ts.month, ts.day, ts.hour, ts.minute>>
      [] kind = "hour" -> <<ts.year, ts.month, ts.day, ts.hour>>
      [] kind = "day" -> <<ts.year, ts.month, ts.day>>
      [] kind = "month" -> <<ts.year, ts.month>>

\* The four keys that check_rate_limit and increment_usage build from one
\* utcnow()
window_keys(u, ts) == [kind \in KindSet |-> window_key(u, kind, strftime(kind, ts))]

\* _get_next_month_start without the December case
_get_next_month_start_same_year(t) ==
    [t EXCEPT !.month = IF @ = 12 THEN 1 ELSE @ + 1, !.day = 1, !.hour = 0,
              !.minute = 0, !.second = 0]

\* _get_next_month_start
_get_next_month_start(t) ==
    IF t.month = 12
    THEN [t EXCEPT !.year = @ + 1, !.month = 1, !.day = 1, !.hour = 0,
                   !.minute = 0, !.second = 0]
    ELSE [t EXCEPT !.month = @ + 1, !.day = 1, !.hour = 0,
                   !.minute = 0, !.second = 0]

\* rate_limit_info["reset_times"]
reset_times(t) ==
    [minute |-> [Plus(t, MinuteSeconds) EXCEPT !.second = 0],
     hour |-> [Plus(t, HourSeconds) EXCEPT !.minute = 0, !.second = 0],
     day |-> [Plus(t, DaySeconds) EXCEPT !.hour = 0, !.minute = 0, !.second = 0],
     month |-> _get_next_month_start(t)]

\* The start of the window of a kind that a timestamp lies in
Truncated(kind, ts) ==
    CASE kind = "minute" -> [ts EXCEPT !.second = 0]
      [] kind = "hour" -> [ts EXCEPT !.minute = 0, !.second = 0]
      [] kind = "day" -> [ts EXCEPT !.hour = 0, !.minute = 0, !.second = 0]
      [] kind = "month" -> [ts EXCEPT !.day = 1, !.hour = 0, !.minute = 0,
                                      !.second = 0]

\* Times of day and days of the year at which calls are made: the first and
\* the last second of a minute, an hour, a day, short and long months, a
\* leap day and a year
ClockSamples ==
    {<<0, 0, 0>>, <<0, 0, 59>>, <<0, 5, 0>>, <<10, 4, 59>>, <<10, 5, 0>>,
     <<10, 5, 1>>, <<10, 59, 59>>, <<23, 59, 59>>}
DaySamples ==
    {<<2024, 1, 1>>, <<2024, 2, 28>>, <<2024, 2, 29>>, <<2024, 12, 31>>,
     <<2025, 1, 1>>, <<2025, 2, 28>>, <<2025, 4, 30>>, <<2025, 12, 1>>,
     <<2025, 12, 31>>}
Stamps ==
    {datetime(d[1], d[2], d[3], c[1], c[2], c[3]) :
        d \in DaySamples, c \in ClockSamples}

\* Two calls of check_rate_limit by one user, each at its own time
InitKeys ==
    /\ loc \in [{1, 2} -> {[now |-> t, keys |-> <<>>, reset_times |-> <<>>] :
                              t \in Stamps}]
    /\ pc = [r \in {1, 2} |-> "idle"]
    /\ store = [k \in {queue_key(0)} |-> Missing]
    /\ now = 0
    /\ backend = "up"
    /\ faults = 0
    /\ crashes = 0
    /\ expired = FALSE
    /\ running = TRUE
    /\ plan = FreePlan
    /\ ledger = NoLedger
    /\ hist = NoHist

\* `now = datetime.utcnow()` to the last key
MakeKeys(r) ==
    /\ pc[r] = "idle"
    /\ loc' = [loc EXCEPT ![r].keys = window_keys(UserOf(r), loc[r].now)]
    /\ SetPc(r, "keyed")
    /\ UNCHANGED <<backend, store, now, faults, crashes, expired, plan, ledger, hist, running>>

\* rate_limit_info and its reset times
MakeInfo(r) ==
    /\ pc[r] = "keyed"
    /\ loc' = [loc EXCEPT ![r].reset_times = reset_times(loc[r].now)]
    /\ SetPc(r, "checked")
    /\ UNCHANGED <<backend, store, now, faults, crashes, expired, plan, ledger, hist, running>>

NextKeys ==
    \/ \E r \in Reqs : MakeKeys(r)
    \/ \E r \in Reqs : MakeInfo(r)

SpecKeys == InitKeys /\ [][NextKeys]_vars

\* C33: two calls of one user build the same key of a kind exactly when
\* their times lie in the same minute, hour, day or month, and the start of
\* a window gives the key of every time in it, truncation being idempotent.
C33_KeyIffSameWindow ==
    \A r, q \in Reqs :
        (pc[r] # "idle" /\ pc[q] # "idle") =>
            \A kind \in KindSet :
                /\ loc[r].keys[kind] = loc[q].keys[kind]
                     <=> Truncated(kind, loc[r].now) = Truncated(kind, loc[q].now)
                /\ window_keys(UserOf(r), Truncated(kind, loc[r].now))[kind]
                     = loc[r].keys[kind]
                /\ Truncated(kind, Truncated(kind, loc[r].now))
                     = Truncated(kind, loc[r].now)
\* Two calls in December of two different years: day and hour of day are
\* equal, no key is
C33_Witness ==
    /\ pc[1] # "idle" /\ pc[2] # "idle"
    /\ loc[1].now = datetime(2024, 12, 31, 23, 59, 59)
    /\ loc[2].now = datetime(2025, 12, 31, 23, 59, 59)
    /\ \A kind \in KindSet : loc[1].keys[kind] # loc[2].keys[kind]

\* C34: each reset time is the start of the next window of its kind: later
\* than now, on a boundary of the kind, and the second before it still in
\* the window of now.
C34_ResetIsNextWindow ==
    \A r \in Reqs :
        pc[r] = "checked" =>
            \A kind \in KindSet :
                LET reset == loc[r].reset_times[kind]
                IN  /\ Seconds(reset) > Seconds(loc[r].now)
                    /\ Truncated(kind, reset) = reset
                    /\ reset.day <= DaysIn(reset.year, reset.month)
                    /\ Truncated(kind, Plus(reset, -1))
                         = Truncated(kind, loc[r].now)
\* The four reset times of a check in the last second of 2024
C34_Witness ==
    /\ pc[1] = "checked"
    /\ loc[1].now = datetime(2024, 12, 31, 23, 59, 59)
    /\ \A kind \in KindSet :
         loc[1].reset_times[kind] = datetime(2025, 1, 1, 0, 0, 0)

(***************************************************************************)
(* The persistence loop on the calendar: when it fires and what it drains  *)
(***************************************************************************)
\* next_run with `<` in place of `<=`
next_run_lt(t) ==
    LET at5 == [t EXCEPT !.minute = 5, !.second = 0]
    IN  IF Seconds(at5) < Seconds(t) THEN Plus(at5, HourSeconds) ELSE at5

\* `next_run = now.replace(minute=5, second=0, microsecond=0)` and
\* `if next_run <= now: next_run += timedelta(hours=1)`
next_run(t) ==
    LET at5 == [t EXCEPT !.minute = 5, !.second = 0]
    IN  IF Seconds(at5) <= Seconds(t) THEN Plus(at5, HourSeconds) ELSE at5

\* persist_usage_data: f"api_requests:{prev_hour.strftime('%Y%m%d%H')}"
request_key(t) == <<"api_requests", strftime("hour", Plus(t, -HourSeconds))>>

\* The seconds by which a sleep may end late, and those a run may take
Latencies == {0, 1, 59}

\* The loop computes its next run and goes to sleep
PlanRun(l) ==
    /\ pc[l] = "l_top"
    /\ running
    /\ loc[l].calls < MaxCycles
    /\ loc' = [loc EXCEPT
                 ![l].next_run = next_run(loc[l].now),
                 ![l].sleep_seconds =
                     Seconds(next_run(loc[l].now)) - Seconds(loc[l].now),
                 ![l].calls = @ + 1]
    /\ SetPc(l, "l_sleep")
    /\ UNCHANGED <<backend, store, now, faults, crashes, expired, plan, ledger, hist, running>>

\* The sleep ends, on time or late, and persist_usage_data reads the clock
\* and names the list it drains
Fire(l, late) ==
    /\ pc[l] = "l_sleep"
    /\ LET woke == Plus(loc[l].now, loc[l].sleep_seconds + late)
       IN  loc' = [loc EXCEPT ![l].now = woke,
                              ![l].request_key = request_key(woke)]
    /\ SetPc(l, "l_work")
    /\ UNCHANGED <<backend, store, now, faults, crashes, expired, plan, ledger, hist, running>>

\* The run ends after some seconds and the loop is at its `while` again
RunEnds(l, took) ==
    /\ pc[l] = "l_work"
    /\ loc' = [loc EXCEPT ![l].now = Plus(@, took)]
    /\ SetPc(l, "l_top")
    /\ UNCHANGED <<backend, store, now, faults, crashes, expired, plan, ledger, hist, running>>

\* The loop is started at any of the sampled times
InitSchedule ==
    /\ loc \in [{_usage_persistence_task} ->
                  {[now |-> t, next_run |-> t, sleep_seconds |-> 0,
                    request_key |-> <<>>, calls |-> 0] : t \in Stamps}]
    /\ pc = [l \in {_usage_persistence_task} |-> "l_top"]
    /\ store = [k \in {queue_key(0)} |-> Missing]
    /\ now = 0
    /\ backend = "up"
    /\ faults = 0
    /\ crashes = 0
    /\ expired = FALSE
    /\ running = TRUE
    /\ plan = FreePlan
    /\ ledger = NoLedger
    /\ hist = NoHist

NextSchedule ==
    \/ \E l \in DOMAIN pc : PlanRun(l)
    \/ \E l \in DOMAIN pc, late \in Latencies : Fire(l, late)
    \/ \E l \in DOMAIN pc, took \in Latencies : RunEnds(l, took)

SpecSchedule == InitSchedule /\ [][NextSchedule]_vars

\* C38: the next run is at minute 5, second 0, later than now by at most one
\* hour, and the run that fires in an hour drains the list of the hour
\* before it.
C38_FiresAtFiveDrainsPrevious ==
    \A l \in DOMAIN pc :
        /\ pc[l] = "l_sleep" =>
             /\ loc[l].next_run.minute = 5 /\ loc[l].next_run.second = 0
             /\ Seconds(loc[l].next_run) > Seconds(loc[l].now)
             /\ loc[l].sleep_seconds > 0 /\ loc[l].sleep_seconds <= HourSeconds
             /\ Plus(loc[l].now, loc[l].sleep_seconds) = loc[l].next_run
        /\ pc[l] = "l_work" =>
             /\ Truncated("hour", loc[l].now) = Truncated("hour", loc[l].next_run)
             /\ loc[l].request_key =
                  <<"api_requests",
                    strftime("hour", Plus(Truncated("hour", loc[l].now), -1))>>
\* The loop, started in the last second of 2024, slept 301 seconds, woke
\* at 00:05:00 on 1 January 2025 and drains the list of 23h on 31 December
C38_Witness ==
    LET l == _usage_persistence_task
    IN  /\ pc[l] = "l_work"
        /\ loc[l].sleep_seconds = 301
        /\ loc[l].now = datetime(2025, 1, 1, 0, 5, 0)
        /\ loc[l].request_key = <<"api_requests", <<2024, 12, 31, 23>>>>

(***************************************************************************)
(* BackgroundTasks._cleanup_expired_rate_limits: one run of the sweep      *)
(***************************************************************************)
\* RedisClient.ttl, the later of the two definitions in the class: the
\* seconds left (minutes here), -1 without expiry, -2 for an absent key or
\* a failed command
ttl(s, k, ok) == IF ok THEN s[k].ttl ELSE KeyMissing

\* The expiry the sweep gives to a key of each kind
SweepSeconds(kind) ==
    CASE kind = "minute" -> 120
      [] kind = "hour" -> 7200
      [] kind = "day" -> 172800
      [] kind = "month" -> 2678400

\* A sweep that takes the answer for an absent key as the one to act on
NeedsExpiry_absent(t) == t = KeyMissing

\* `if ttl == -1:`
NeedsExpiry(t) == t = NoExpiry

\* `keys = await self.redis_client.scan_iter(pattern="rate_limit:*")`
SweepScan(l) ==
    /\ pc[l] = "s_idle"
    /\ \E ok \in Outcomes :
         /\ Fault(ok)
         /\ loc' = [loc EXCEPT ![l] =
              [keys |-> scan_iter(store, "rate_limit", ok), key |-> <<>>,
               bare |-> {k \in scan_iter(store, "rate_limit", ok) :
                           store[k].ttl = NoExpiry}]]
    /\ SetPc(l, "s_ttl")
    /\ UNCHANGED <<store, now, crashes, expired, plan, ledger, hist, running>>

\* `for key in keys: ttl = await self.redis_client.ttl(key)`, in whatever
\* order the scan gave; the loop ends when no key is left
SweepTtl(l) ==
    /\ pc[l] = "s_ttl"
    /\ IF loc[l].keys = {}
       THEN /\ SetPc(l, "s_done")
            /\ UNCHANGED <<loc, backend, faults>>
       ELSE \E k \in loc[l].keys, ok \in Outcomes :
              /\ Fault(ok)
              /\ IF NeedsExpiry(ttl(store, k, ok))
                 THEN /\ loc' = [loc EXCEPT ![l].key = k]
                      /\ SetPc(l, "s_expire")
                 ELSE /\ loc' = [loc EXCEPT ![l].keys = @ \ {k}]
                      /\ UNCHANGED pc
    /\ UNCHANGED <<store, now, crashes, expired, plan, ledger, hist, running>>

\* `await self.redis_client.expire(key, 120)` and so on by the key's kind
SweepExpire(l) ==
    /\ pc[l] = "s_expire"
    /\ \E ok \in Outcomes :
         /\ Fault(ok)
         /\ store' = expire(store, loc[l].key, SweepSeconds(loc[l].key[3]), ok)
    /\ loc' = [loc EXCEPT ![l].keys = @ \ {loc[l].key}, ![l].key = <<>>]
    /\ SetPc(l, "s_ttl")
    /\ UNCHANGED <<now, crashes, expired, plan, ledger, hist, running>>

\* The sweep runs once over a store in which each window key of the minute
\* is absent, holds 1 without expiry, or holds 2 with its expiry, while one
\* increment_usage call of the user runs; the store answers every command
InitSweep ==
    /\ now = 0
    /\ \E have \in [KindSet -> 0 .. 2] :
         store = [k \in WindowKeys |->
                    IF k[4] # 0 \/ have[k[3]] = 0 THEN Missing
                    ELSE IF have[k[3]] = 1
                    THEN [val |-> 1, ttl |-> NoExpiry, born |-> 0]
                    ELSE [val |-> 2, ttl |-> window_ttl(k[3], 0), born |-> 0]]
    /\ pc = [i \in {1, _rate_limit_cleanup_task} |->
               IF i = 1 THEN "idle" ELSE "s_idle"]
    /\ loc = [i \in {1, _rate_limit_cleanup_task} |->
                IF i = 1 THEN NoLocal
                ELSE [keys |-> {}, key |-> <<>>, bare |-> {}]]
    /\ backend = "up"
    /\ faults = 0
    /\ crashes = 0
    /\ expired = FALSE
    /\ running = TRUE
    /\ plan = FreePlan
    /\ ledger = NoLedger
    /\ hist = NoHist

NextSweep ==
    \/ SweepScan(_rate_limit_cleanup_task)
    \/ SweepTtl(_rate_limit_cleanup_task)
    \/ SweepExpire(_rate_limit_cleanup_task)
    \/ \E i \in 1 .. 4 : UsageIncr(1, i)
    \/ \E i \in 1 .. 4 : UsageExpire(1, i)

SpecSweep == InitSweep /\ [][NextSweep]_vars

\* C39: when a run of the sweep ends, every window key that had no expiry
\* when the run scanned it has one (the sweep's 120, 7200, 172800 or
\* 2678400 s unless increment_usage has set its own since), and no step of
\* the sweep removes a key or changes a counter's value.
C39_SweepSetsExpiry ==
    [][LET l == _rate_limit_cleanup_task
       IN  /\ (pc[l] # "s_done" /\ pc'[l] = "s_done") =>
                \A k \in loc[l].bare :
                    /\ Present(store', k)
                    /\ store'[k].ttl \in {Ticks(SweepSeconds(k[3])),
                                          window_ttl(k[3], 0)}
           /\ (pc'[l] # pc[l] \/ loc'[l] # loc[l]) =>
                \A k \in Keys :
                    /\ store'[k].val = store[k].val
                    /\ Present(store', k) <=> Present(store, k)]_vars
\* A run has ended that found all four keys of the minute without expiry
\* and gave each the sweep's expiry
C39_Witness ==
    LET l == _rate_limit_cleanup_task
    IN  /\ pc[l] = "s_done"
        /\ Cardinality(loc[l].bare) = 4
        /\ \A k \in loc[l].bare :
             Present(store, k) /\ store[k].ttl = Ticks(SweepSeconds(k[3]))

(***************************************************************************)
(* BackgroundTasks started again after stop()                              *)
(***************************************************************************)
\* Each task is followed through its last iteration of MaxCycles
InitRestart ==
    /\ running = FALSE
    /\ pc = [t \in Tasks |-> "l_none"]
    /\ loc = [t \in Tasks |-> [NoLocal EXCEPT !.calls = MaxCycles - 1]]
    /\ store = [k \in {queue_key(0)} |-> Missing]
    /\ now = 0
    /\ backend = "up"
    /\ faults = 0
    /\ crashes = 0
    /\ expired = FALSE
    /\ plan = FreePlan
    /\ ledger = NoLedger
    /\ hist = NoHist

NextRestart ==
    \/ Start
    \/ Stop
    \/ \E t \in Tasks : Enter(t)
    \/ \E t \in Tasks : Wake(t)
    \/ \E t \in Tasks : \E outcome \in WorkOutcomes(t) : Work(t, outcome)
    \/ \E t \in Tasks : BackoffEnd(t)

SpecRestart == InitRestart /\ [][NextRestart]_vars

\* The tasks of a loop that have been created and have not ended
Alive(l) == {t \in Tasks : LoopOf(t) = l /\ pc[t] \notin {"l_none", "l_exit"}}

\* C37: at most one task of each loop is alive at any time.
C37_OneTaskPerLoop ==
    \A l \in Loops : Cardinality(Alive(l)) <= 1

====
